---- MODULE Spec2Model ----
(***************************************************************************)
(* Admin console data layer: the users, groups, events and surveys tables, *)
(* the three join tables, and the HTTP handlers that read and write them.  *)
(* Every handler is one action (two for the delete handlers, which await   *)
(* two statements); every SQL statement is an operator on the tables.      *)
(***************************************************************************)
EXTENDS Integers, Sequences, FiniteSets, TLC

VARIABLES
    users,                  \* table users: a set of rows
    groups,                 \* table groups
    events,                 \* table events
    surveys,                \* table surveys
    relation_group_user,    \* join table user <-> group
    relation_group_event,   \* join table group <-> event
    relation_event_survey,  \* join table event <-> survey (carries file_final)
    uuidGen,                \* number of uuids gen_random_uuid() has handed out
    now,                    \* CURRENT_TIMESTAMP
    inflight,               \* requests and the startup between two statements
    schema,                 \* the tables and indexes the store has
    listPage,               \* the state of the Surveys page in the browser
    resp                    \* the HTTP response sent by the step just taken

vars == <<users, groups, events, surveys, relation_group_user,
          relation_group_event, relation_event_survey, uuidGen, now,
          inflight, schema, listPage, resp>>

tables == <<users, groups, events, surveys, relation_group_user,
            relation_group_event, relation_event_survey>>

-----------------------------------------------------------------------------
(* Bounds of the model.                                                    *)

MaxClock == 2
MaxInflight == 1

Slots == 1..MaxInflight

-----------------------------------------------------------------------------
(* The tables and indexes createTables makes.                              *)
Relations ==
    {"users", "groups", "events", "surveys", "relation_group_user",
     "relation_group_event", "relation_group_eventsurvey",
     "relation_event_survey", "idx_users_email", "idx_users_username",
     "idx_groups_name", "idx_events_status", "idx_surveys_status",
     "idx_relation_group_user_group", "idx_relation_group_user_user"}

-----------------------------------------------------------------------------
(* Values.  A text is a tuple of characters; SQL NULL of a text column is  *)
(* the one-element tuple NULL, which is no text a request can carry.       *)

NULL == <<"NULL">>
NullTime == 0
BadDate == 0 - 1

Lower(c) ==
    CASE c = "A" -> "a"
      [] c = "B" -> "b"
      [] c = "E" -> "e"
      [] OTHER -> c

LowerText(s) == [i \in 1..Len(s) |-> Lower(s[i])]

(* The LIKE operator: % matches any run, _ any one character, and a        *)
(* backslash makes the next pattern character literal.                     *)
RECURSIVE LikeMatch(_, _)
LikeMatch(p, s) ==
    IF p = <<>> THEN s = <<>>
    ELSE IF Head(p) = "%"
         THEN LikeMatch(Tail(p), s) \/ (s # <<>> /\ LikeMatch(p, Tail(s)))
    ELSE IF Head(p) = "_"
         THEN s # <<>> /\ LikeMatch(Tail(p), Tail(s))
    ELSE IF Head(p) = "\\"
         THEN /\ Len(p) > 1
              /\ s # <<>>
              /\ Head(s) = p[2]
              /\ LikeMatch(Tail(Tail(p)), Tail(s))
    ELSE s # <<>> /\ Head(s) = Head(p) /\ LikeMatch(Tail(p), Tail(s))

(* col ILIKE pattern: NULL never matches.                                  *)
ILike(s, p) == s # NULL /\ LikeMatch(LowerText(p), LowerText(s))

(* `%${search}%`                                                           *)
SearchPattern(search) == <<"%">> \o search \o <<"%">>

-----------------------------------------------------------------------------
(* Request bodies are records; a field that is not sent is absent from the *)
(* record's domain (undefined after destructuring).                        *)

Has(body, k) == k \in DOMAIN body

Empty == [x \in {} |-> x]

(* !body.k for a text field: undefined, null and "" are falsy.             *)
FalsyText(body, k) == ~Has(body, k) \/ body[k] = NULL \/ body[k] = <<>>

(* body.k || null                                                          *)
TextOrNull(body, k) == IF FalsyText(body, k) THEN NULL ELSE body[k]

(* !body.k for a date string.                                              *)
FalsyTime(body, k) == ~Has(body, k) \/ body[k] = NullTime

(* new Date(s): an unparseable string gives an Invalid Date, whose         *)
(* comparisons are all false.                                              *)
DateLE_Strict(a, b) == a # BadDate /\ b # BadDate /\ a < b

DateLE(a, b) == a # BadDate /\ b # BadDate /\ a <= b

-----------------------------------------------------------------------------
(* The schema.                                                             *)

GroupCols == {"uuid", "name", "description", "created_at", "updated_at"}
UserCols == {"uuid", "username", "email", "role", "password", "status",
             "created_at", "updated_at"}
EventCols == {"uuid", "name", "description", "time_start", "time_end",
              "status", "created_at", "updated_at"}
SurveyCols == {"uuid", "name", "form", "set_point", "status",
               "created_at", "updated_at"}

TextCols == {"name", "description", "username", "email", "password",
             "set_point"}
TimeCols == {"time_start", "time_end", "created_at", "updated_at"}

(* NOT NULL columns that a request can try to set to null.                 *)
GroupNotNull == {"name"}
UserNotNull == {"username", "email", "password"}
EventNotNull == {"name", "time_start", "time_end"}
SurveyNotNull == {"name"}

(* UNIQUE constraints, in the order their indexes are created.             *)
GroupUnique == <<[constraint |-> "groups_name_key", col |-> "name"]>>
UserUnique == <<[constraint |-> "users_username_key", col |-> "username"],
                [constraint |-> "users_email_key", col |-> "email"]>>
NoUnique == <<>>

IsNullValue(col, v) ==
    IF col \in TextCols THEN v = NULL
    ELSE IF col \in TimeCols THEN v = NullTime
    ELSE FALSE

(* A value the column's input function rejects.                            *)
IsBadValue(col, v) == col \in TimeCols /\ v = BadDate

FirstConflict_None(uniques, row, others) == ""

(* The first unique constraint that row breaks against the other rows.     *)
RECURSIVE FirstConflict(_, _, _)
FirstConflict(uniques, row, others) ==
    IF uniques = <<>> THEN ""
    ELSE IF \E o \in others : o[Head(uniques).col] = row[Head(uniques).col]
         THEN Head(uniques).constraint
    ELSE FirstConflict(Tail(uniques), row, others)

(* The outcome of one statement: err is the SQLSTATE ("" on success),      *)
(* table the table afterwards, rows the rows RETURNING gives back.         *)
SqlOk(table, rows) ==
    [err |-> "", constraint |-> "", table |-> table, rows |-> rows]
SqlError(table, code, constraint) ==
    [err |-> code, constraint |-> constraint, table |-> table, rows |-> {}]

(* INSERT INTO table ... one row, with its defaults already filled in.     *)
SqlInsert(table, notnull, uniques, row) ==
    IF \E c \in DOMAIN row : IsBadValue(c, row[c])
    THEN SqlError(table, "22007", "")
    ELSE IF \E c \in notnull : IsNullValue(c, row[c])
    THEN SqlError(table, "23502", "")
    ELSE IF FirstConflict(uniques, row, table) # ""
    THEN SqlError(table, "23505", FirstConflict(uniques, row, table))
    ELSE SqlOk(table \cup {row}, {row})

UpdatedRow_AllColumns(row, body, ts) ==
    [c \in DOMAIN row |->
        IF c = "updated_at" THEN ts
        ELSE IF c \in DOMAIN body THEN body[c]
        ELSE IF c = "description" THEN NULL
        ELSE row[c]]

(* The row an UPDATE writes: the columns named in the SET list take the    *)
(* supplied values, updated_at the current time, the others stay.          *)
UpdatedRow(row, body, ts) ==
    [c \in DOMAIN row |->
        IF c = "updated_at" THEN ts
        ELSE IF c \in DOMAIN body THEN body[c]
        ELSE row[c]]

(* A path parameter that is no uuid: the store rejects the statement that  *)
(* compares it with a uuid column.                                         *)
BadUuid == 0 - 1
IsUuid(id) == id # BadUuid

(* UPDATE table SET <body's keys>, updated_at = CURRENT_TIMESTAMP          *)
(* WHERE uuid = id RETURNING ...                                           *)
SqlUpdate(table, cols, notnull, uniques, body, id, ts) ==
    LET targets == {r \in table : r.uuid = id}
        new == {UpdatedRow(r, body, ts) : r \in targets}
        others == table \ targets
    IN  IF \E k \in DOMAIN body : k \notin cols
        THEN SqlError(table, "42703", "")
        ELSE IF "updated_at" \in DOMAIN body
        THEN SqlError(table, "42601", "")
        ELSE IF \E k \in DOMAIN body : IsBadValue(k, body[k])
        THEN SqlError(table, "22007", "")
        ELSE IF ~IsUuid(id)
        THEN SqlError(table, "22P02", "")
        ELSE IF \E r \in new : \E c \in notnull : IsNullValue(c, r[c])
        THEN SqlError(table, "23502", "")
        ELSE IF \E r \in new : FirstConflict(uniques, r, others) # ""
        THEN SqlError(table, "23505",
                 FirstConflict(uniques, CHOOSE r \in new : TRUE, others))
        ELSE SqlOk(others \cup new, new)

(* Object.entries(updates) keeps the keys whose value is not undefined:    *)
(* the SET list of the UPDATE.                                             *)
UpdateFields(body) == DOMAIN body

NoFields_Never(body) == FALSE

(* updateFields.length === 0                                               *)
NoFields(body) == UpdateFields(body) = {}

-----------------------------------------------------------------------------
(* Responses.                                                              *)

NoResp == [op |-> "none"]

(* The Surveys page as it mounts: the useState values, and the fetch its  *)
(* effect sends on the first render.                                       *)
Fetch(page, status) == [page |-> page, status |-> status]

Mounted ==
    [currentPage |-> 1, totalPages |-> 1, statusFilter |-> "all",
     loading |-> TRUE, surveys |-> {}, fetches |-> {Fetch(1, "all")},
     deletes |-> {}]

Reply(op, req, status, error, data, queries) ==
    [op |-> op, req |-> req, status |-> status, error |-> error,
     data |-> data, queries |-> queries]

-----------------------------------------------------------------------------
(* Groups.                                                                 *)

GroupRow(uuid, name, description, ts) ==
    [uuid |-> uuid, name |-> name, description |-> description,
     created_at |-> ts, updated_at |-> ts]

createGroup(body) ==
    LET req == [body |-> body]
        r == SqlInsert(groups, GroupNotNull, GroupUnique,
                 GroupRow(uuidGen + 1, body.name,
                          TextOrNull(body, "description"), now))
    IN  /\ IF FalsyText(body, "name")
           THEN /\ resp' = Reply("createGroup", req, 400,
                                 "Group name is required", {}, 0)
                /\ UNCHANGED <<groups, uuidGen>>
           ELSE IF r.err = ""
           THEN /\ groups' = r.table
                /\ uuidGen' = uuidGen + 1
                /\ resp' = Reply("createGroup", req, 201, "", r.rows, 1)
           ELSE /\ resp' = Reply("createGroup", req, 400,
                                 IF r.err = "23505"
                                 THEN "Group name already exists"
                                 ELSE "Failed to create group", {}, 1)
                /\ UNCHANGED <<groups, uuidGen>>
        /\ UNCHANGED <<users, events, surveys, relation_group_user,
                       relation_group_event, relation_event_survey, now,
                       schema, listPage,
                       inflight>>

updateGroup(id, body) ==
    LET req == [id |-> id, body |-> body]
        r == SqlUpdate(groups, GroupCols, GroupNotNull, GroupUnique,
                       body, id, now)
    IN  /\ IF NoFields(body)
           THEN /\ resp' = Reply("updateGroup", req, 400,
                                 "No fields to update", {}, 0)
                /\ UNCHANGED groups
           ELSE IF r.err # ""
           THEN /\ resp' = Reply("updateGroup", req, 400,
                                 IF r.err = "23505"
                                 THEN "Group name already exists"
                                 ELSE "Failed to update group", {}, 1)
                /\ UNCHANGED groups
           ELSE IF r.rows = {}
           THEN /\ resp' = Reply("updateGroup", req, 404,
                                 "Group not found", {}, 1)
                /\ UNCHANGED groups
           ELSE /\ groups' = r.table
                /\ resp' = Reply("updateGroup", req, 200, "", r.rows, 1)
        /\ UNCHANGED <<users, events, surveys, relation_group_user,
                       relation_group_event, relation_event_survey, uuidGen,
                       now, schema, listPage, inflight>>

-----------------------------------------------------------------------------
(* Users.                                                                  *)

(* RETURNING <cols>                                                        *)
Returning(rows, cols) == {[c \in cols |-> r[c]] : r \in rows}

UserReturning == {"uuid", "username", "email", "role", "status",
                  "created_at", "updated_at"}

UserRow(uuid, username, email, role, password, ts) ==
    [uuid |-> uuid, username |-> username, email |-> email, role |-> role,
     password |-> password, status |-> TRUE,
     created_at |-> ts, updated_at |-> ts]

ConstraintIncludes_Never(constraint, word) == FALSE

(* error.constraint?.includes(word)                                        *)
ConstraintIncludes(constraint, word) ==
    \/ constraint = "users_username_key" /\ word = "username"
    \/ constraint = "users_email_key" /\ word = "email"

(* The message the create and update handlers of users build in catch.     *)
UserErrorMessage(r, fallback) ==
    IF r.err = "23505" /\ ConstraintIncludes(r.constraint, "username")
    THEN "Username already exists"
    ELSE IF r.err = "23505" /\ ConstraintIncludes(r.constraint, "email")
    THEN "Email already exists"
    ELSE fallback

createUser(body) ==
    LET req == [body |-> body]
        r == SqlInsert(users, UserNotNull, UserUnique,
                 UserRow(uuidGen + 1, body.username, body.email,
                         IF Has(body, "role") THEN body.role ELSE "user",
                         body.password, now))
    IN  /\ IF \/ FalsyText(body, "username")
              \/ FalsyText(body, "email")
              \/ FalsyText(body, "password")
           THEN /\ resp' = Reply("createUser", req, 400,
                       "Username, email, and password are required", {}, 0)
                /\ UNCHANGED <<users, uuidGen>>
           ELSE IF r.err = ""
           THEN /\ users' = r.table
                /\ uuidGen' = uuidGen + 1
                /\ resp' = Reply("createUser", req, 201, "",
                                 Returning(r.rows, UserReturning), 1)
           ELSE /\ resp' = Reply("createUser", req, 400,
                       UserErrorMessage(r, "Failed to create user"), {}, 1)
                /\ UNCHANGED <<users, uuidGen>>
        /\ UNCHANGED <<groups, events, surveys, relation_group_user,
                       relation_group_event, relation_event_survey, now,
                       schema, listPage,
                       inflight>>

updateUser(id, body) ==
    LET req == [id |-> id, body |-> body]
        r == SqlUpdate(users, UserCols, UserNotNull, UserUnique,
                       body, id, now)
    IN  /\ IF NoFields(body)
           THEN /\ resp' = Reply("updateUser", req, 400,
                                 "No fields to update", {}, 0)
                /\ UNCHANGED users
           ELSE IF r.err # ""
           THEN /\ resp' = Reply("updateUser", req, 400,
                       UserErrorMessage(r, "Failed to update user"), {}, 1)
                /\ UNCHANGED users
           ELSE IF r.rows = {}
           THEN /\ resp' = Reply("updateUser", req, 404,
                                 "User not found", {}, 1)
                /\ UNCHANGED users
           ELSE /\ users' = r.table
                /\ resp' = Reply("updateUser", req, 200, "",
                                 Returning(r.rows, UserReturning), 1)
        /\ UNCHANGED <<groups, events, surveys, relation_group_user,
                       relation_group_event, relation_event_survey, uuidGen,
                       now, schema, listPage, inflight>>

-----------------------------------------------------------------------------
(* Events.                                                                 *)

EventRow(uuid, name, description, time_start, time_end, status, ts) ==
    [uuid |-> uuid, name |-> name, description |-> description,
     time_start |-> time_start, time_end |-> time_end, status |-> status,
     created_at |-> ts, updated_at |-> ts]

createEvent(body) ==
    LET req == [body |-> body]
        r == SqlInsert(events, EventNotNull, NoUnique,
                 EventRow(uuidGen + 1, body.name,
                          TextOrNull(body, "description"),
                          body.time_start, body.time_end,
                          IF Has(body, "status") THEN body.status
                          ELSE "scheduled", now))
    IN  /\ IF \/ FalsyText(body, "name")
              \/ FalsyTime(body, "time_start")
              \/ FalsyTime(body, "time_end")
           THEN /\ resp' = Reply("createEvent", req, 400,
                       "Name, start time, and end time are required", {}, 0)
                /\ UNCHANGED <<events, uuidGen>>
           ELSE IF DateLE(body.time_end, body.time_start)
           THEN /\ resp' = Reply("createEvent", req, 400,
                       "End time must be after start time", {}, 0)
                /\ UNCHANGED <<events, uuidGen>>
           ELSE IF r.err = ""
           THEN /\ events' = r.table
                /\ uuidGen' = uuidGen + 1
                /\ resp' = Reply("createEvent", req, 201, "", r.rows, 1)
           ELSE /\ resp' = Reply("createEvent", req, 400,
                                 "Failed to create event", {}, 1)
                /\ UNCHANGED <<events, uuidGen>>
        /\ UNCHANGED <<users, groups, surveys, relation_group_user,
                       relation_group_event, relation_event_survey, now,
                       schema, listPage,
                       inflight>>

updateEvent(id, body) ==
    LET req == [id |-> id, body |-> body]
        r == SqlUpdate(events, EventCols, EventNotNull, NoUnique,
                       body, id, now)
    IN  /\ IF /\ ~FalsyTime(body, "time_start")
              /\ ~FalsyTime(body, "time_end")
              /\ DateLE(body.time_end, body.time_start)
           THEN /\ resp' = Reply("updateEvent", req, 400,
                       "End time must be after start time", {}, 0)
                /\ UNCHANGED events
           ELSE IF NoFields(body)
           THEN /\ resp' = Reply("updateEvent", req, 400,
                                 "No fields to update", {}, 0)
                /\ UNCHANGED events
           ELSE IF r.err # ""
           THEN /\ resp' = Reply("updateEvent", req, 400,
                                 "Failed to update event", {}, 1)
                /\ UNCHANGED events
           ELSE IF r.rows = {}
           THEN /\ resp' = Reply("updateEvent", req, 404,
                                 "Event not found", {}, 1)
                /\ UNCHANGED events
           ELSE /\ events' = r.table
                /\ resp' = Reply("updateEvent", req, 200, "", r.rows, 1)
        /\ UNCHANGED <<users, groups, surveys, relation_group_user,
                       relation_group_event, relation_event_survey, uuidGen,
                       now, schema, listPage, inflight>>

-----------------------------------------------------------------------------
(* Surveys.  A form is a JSON value: its kind and a number telling values  *)
(* of one kind apart (0 is the falsy one: "", 0, false).                   *)

(* typeof form                                                             *)
TypeOf(form) ==
    IF form.kind \in {"object", "array", "null"} THEN "object" ELSE form.kind

(* !form                                                                   *)
FalsyForm(body) ==
    \/ ~Has(body, "form")
    \/ body.form.kind = "null"
    \/ body.form.kind \in {"string", "number", "boolean"} /\ body.form.v = 0

(* JSON.stringify(form): the JSON text of the value.                       *)
JsonStringify(form) == [json |-> <<form.kind, form.v>>]

(* The jsonb input function: the value a JSON text denotes.                *)
JsonbIn(text) == [kind |-> text.json[1], v |-> text.json[2]]

SurveyRow(uuid, name, formText, set_point, status, ts) ==
    [uuid |-> uuid, name |-> name, form |-> JsonbIn(formText),
     set_point |-> set_point, status |-> status,
     created_at |-> ts, updated_at |-> ts]

createSurvey(body) ==
    LET req == [body |-> body]
        r == SqlInsert(surveys, SurveyNotNull, NoUnique,
                 SurveyRow(uuidGen + 1, body.name, JsonStringify(body.form),
                           TextOrNull(body, "set_point"),
                           IF Has(body, "status") THEN body.status
                           ELSE "active", now))
    IN  /\ IF FalsyText(body, "name") \/ FalsyForm(body)
           THEN /\ resp' = Reply("createSurvey", req, 400,
                                 "Name and form are required", {}, 0)
                /\ UNCHANGED <<surveys, uuidGen>>
           ELSE IF TypeOf(body.form) # "object"
           THEN /\ resp' = Reply("createSurvey", req, 400,
                                 "Form must be a valid JSON object", {}, 0)
                /\ UNCHANGED <<surveys, uuidGen>>
           ELSE IF r.err = ""
           THEN /\ surveys' = r.table
                /\ uuidGen' = uuidGen + 1
                /\ resp' = Reply("createSurvey", req, 201, "", r.rows, 1)
           ELSE /\ resp' = Reply("createSurvey", req, 400,
                                 "Failed to create survey", {}, 1)
                /\ UNCHANGED <<surveys, uuidGen>>
        /\ UNCHANGED <<users, groups, events, relation_group_user,
                       relation_group_event, relation_event_survey, now,
                       schema, listPage,
                       inflight>>

(* The values array of updateSurvey: the form goes through                 *)
(* JSON.stringify and the column's input function, the rest as sent.       *)
SurveyValues(body) ==
    [k \in DOMAIN body |->
        IF k = "form" THEN JsonbIn(JsonStringify(body[k])) ELSE body[k]]

updateSurvey(id, body) ==
    LET req == [id |-> id, body |-> body]
        r == SqlUpdate(surveys, SurveyCols, SurveyNotNull, NoUnique,
                       SurveyValues(body), id, now)
    IN  /\ IF ~FalsyForm(body) /\ TypeOf(body.form) # "object"
           THEN /\ resp' = Reply("updateSurvey", req, 400,
                                 "Form must be a valid JSON object", {}, 0)
                /\ UNCHANGED surveys
           ELSE IF NoFields(body)
           THEN /\ resp' = Reply("updateSurvey", req, 400,
                                 "No fields to update", {}, 0)
                /\ UNCHANGED surveys
           ELSE IF r.err # ""
           THEN /\ resp' = Reply("updateSurvey", req, 400,
                                 "Failed to update survey", {}, 1)
                /\ UNCHANGED surveys
           ELSE IF r.rows = {}
           THEN /\ resp' = Reply("updateSurvey", req, 404,
                                 "Survey not found", {}, 1)
                /\ UNCHANGED surveys
           ELSE /\ surveys' = r.table
                /\ resp' = Reply("updateSurvey", req, 200, "", r.rows, 1)
        /\ UNCHANGED <<users, groups, events, relation_group_user,
                       relation_group_event, relation_event_survey, uuidGen,
                       now, schema, listPage, inflight>>

-----------------------------------------------------------------------------
(* Deletes.  ON DELETE CASCADE removes the join rows that reference the    *)
(* deleted row.  A delete handler awaits a SELECT and then a DELETE, so    *)
(* other requests can run between the two.                                 *)

DeleteRow(table, id) == {r \in table : r.uuid # id}

Cascade_None(rel, col, id) == rel

Cascade(rel, col, id) == {l \in rel : l[col] # id}

SlotFree(slot) == \A rq \in inflight : rq.slot # slot

Exists(table, id) == \E r \in table : r.uuid = id

deleteGroup(id, slot) ==
    LET req == [id |-> id]
        rq == [op |-> "deleteGroup", id |-> id, slot |-> slot]
    IN  \/ /\ SlotFree(slot)
           /\ IF ~IsUuid(id)
              THEN /\ resp' = Reply("deleteGroup", req, 500,
                                    "Failed to delete group", {}, 1)
                   /\ UNCHANGED inflight
              ELSE IF Exists(groups, id)
              THEN inflight' = inflight \cup {rq} /\ resp' = NoResp
              ELSE /\ resp' = Reply("deleteGroup", req, 404,
                                    "Group not found", {}, 1)
                   /\ UNCHANGED inflight
           /\ UNCHANGED <<tables, uuidGen, now, schema, listPage>>
        \/ /\ rq \in inflight
           /\ inflight' = inflight \ {rq}
           /\ groups' = DeleteRow(groups, id)
           /\ relation_group_user' =
                  Cascade(relation_group_user, "group_id", id)
           /\ relation_group_event' =
                  Cascade(relation_group_event, "group_id", id)
           /\ resp' = Reply("deleteGroup", req, 200, "", {}, 2)
           /\ UNCHANGED <<users, events, surveys, relation_event_survey,
                          uuidGen, now, schema, listPage>>

deleteUser(id, slot) ==
    LET req == [id |-> id]
        rq == [op |-> "deleteUser", id |-> id, slot |-> slot]
    IN  \/ /\ SlotFree(slot)
           /\ IF ~IsUuid(id)
              THEN /\ resp' = Reply("deleteUser", req, 500,
                                    "Failed to delete user", {}, 1)
                   /\ UNCHANGED inflight
              ELSE IF Exists(users, id)
              THEN inflight' = inflight \cup {rq} /\ resp' = NoResp
              ELSE /\ resp' = Reply("deleteUser", req, 404,
                                    "User not found", {}, 1)
                   /\ UNCHANGED inflight
           /\ UNCHANGED <<tables, uuidGen, now, schema, listPage>>
        \/ /\ rq \in inflight
           /\ inflight' = inflight \ {rq}
           /\ users' = DeleteRow(users, id)
           /\ relation_group_user' =
                  Cascade(relation_group_user, "user_id", id)
           /\ resp' = Reply("deleteUser", req, 200, "", {}, 2)
           /\ UNCHANGED <<groups, events, surveys, relation_group_event,
                          relation_event_survey, uuidGen, now,
                          schema, listPage>>

deleteEvent(id, slot) ==
    LET req == [id |-> id]
        rq == [op |-> "deleteEvent", id |-> id, slot |-> slot]
    IN  \/ /\ SlotFree(slot)
           /\ IF ~IsUuid(id)
              THEN /\ resp' = Reply("deleteEvent", req, 500,
                                    "Failed to delete event", {}, 1)
                   /\ UNCHANGED inflight
              ELSE IF Exists(events, id)
              THEN inflight' = inflight \cup {rq} /\ resp' = NoResp
              ELSE /\ resp' = Reply("deleteEvent", req, 404,
                                    "Event not found", {}, 1)
                   /\ UNCHANGED inflight
           /\ UNCHANGED <<tables, uuidGen, now, schema, listPage>>
        \/ /\ rq \in inflight
           /\ inflight' = inflight \ {rq}
           /\ events' = DeleteRow(events, id)
           /\ relation_group_event' =
                  Cascade(relation_group_event, "event_id", id)
           /\ relation_event_survey' =
                  Cascade(relation_event_survey, "event_id", id)
           /\ resp' = Reply("deleteEvent", req, 200, "", {}, 2)
           /\ UNCHANGED <<users, groups, surveys, relation_group_user,
                          uuidGen, now, schema, listPage>>

deleteSurvey(id, slot) ==
    LET req == [id |-> id]
        rq == [op |-> "deleteSurvey", id |-> id, slot |-> slot]
    IN  \/ /\ SlotFree(slot)
           /\ IF ~IsUuid(id)
              THEN /\ resp' = Reply("deleteSurvey", req, 500,
                                    "Failed to delete survey", {}, 1)
                   /\ UNCHANGED inflight
              ELSE IF Exists(surveys, id)
              THEN inflight' = inflight \cup {rq} /\ resp' = NoResp
              ELSE /\ resp' = Reply("deleteSurvey", req, 404,
                                    "Survey not found", {}, 1)
                   /\ UNCHANGED inflight
           /\ UNCHANGED <<tables, uuidGen, now, schema, listPage>>
        \/ /\ rq \in inflight
           /\ inflight' = inflight \ {rq}
           /\ surveys' = DeleteRow(surveys, id)
           /\ relation_event_survey' =
                  Cascade(relation_event_survey, "survey_id", id)
           /\ resp' = Reply("deleteSurvey", req, 200, "", {}, 2)
           /\ UNCHANGED <<users, groups, events, relation_group_user,
                          relation_group_event, uuidGen, now,
                          schema, listPage>>

-----------------------------------------------------------------------------
(* Links.  INSERT ... ON CONFLICT (pair) DO NOTHING keeps the row already  *)
(* there; the foreign keys reject a pair that names a missing row.         *)

(* !body.k for an identifier.                                              *)
FalsyId(body, k) == ~Has(body, k) \/ body[k] = 0

SqlInsertLink_NoForeignKey(rel, colA, tableA, colB, tableB, row) ==
    SqlOk(rel \cup {row}, {})

SqlInsertLink_ConflictError(rel, colA, tableA, colB, tableB, row) ==
    IF \E l \in rel : l[colA] = row[colA] /\ l[colB] = row[colB]
    THEN SqlError(rel, "23505", "")
    ELSE IF ~Exists(tableA, row[colA]) \/ ~Exists(tableB, row[colB])
    THEN SqlError(rel, "23503", "")
    ELSE SqlOk(rel \cup {row}, {})

SqlInsertLink(rel, colA, tableA, colB, tableB, row) ==
    IF \E l \in rel : l[colA] = row[colA] /\ l[colB] = row[colB]
    THEN SqlOk(rel, {})
    ELSE IF ~Exists(tableA, row[colA]) \/ ~Exists(tableB, row[colB])
    THEN SqlError(rel, "23503", "")
    ELSE SqlOk(rel \cup {row}, {})

SqlDeleteLink_ByFirst(rel, colA, a, colB, b) ==
    {l \in rel : l[colA] # a}

SqlDeleteLink(rel, colA, a, colB, b) ==
    {l \in rel : ~(l[colA] = a /\ l[colB] = b)}

addUserToGroup(body) ==
    LET req == [body |-> body]
        r == SqlInsertLink(relation_group_user, "user_id", users,
                 "group_id", groups,
                 [user_id |-> body.userId, group_id |-> body.groupId,
                  created_at |-> now])
    IN  /\ IF FalsyId(body, "userId") \/ FalsyId(body, "groupId")
           THEN /\ resp' = Reply("addUserToGroup", req, 400,
                                 "User ID and Group ID are required", {}, 0)
                /\ UNCHANGED relation_group_user
           ELSE IF r.err # ""
           THEN /\ resp' = Reply("addUserToGroup", req, 500,
                                 "Failed to add user to group", {}, 1)
                /\ UNCHANGED relation_group_user
           ELSE /\ relation_group_user' = r.table
                /\ resp' = Reply("addUserToGroup", req, 200, "", {}, 1)
        /\ UNCHANGED <<users, groups, events, surveys, relation_group_event,
                       relation_event_survey, uuidGen, now,
                       schema, listPage, inflight>>

removeUserFromGroup(body) ==
    LET req == [body |-> body]
    IN  /\ IF FalsyId(body, "userId") \/ FalsyId(body, "groupId")
           THEN /\ resp' = Reply("removeUserFromGroup", req, 400,
                                 "User ID and Group ID are required", {}, 0)
                /\ UNCHANGED relation_group_user
           ELSE /\ relation_group_user' =
                       SqlDeleteLink(relation_group_user, "user_id",
                                     body.userId, "group_id", body.groupId)
                /\ resp' = Reply("removeUserFromGroup", req, 200, "", {}, 1)
        /\ UNCHANGED <<users, groups, events, surveys, relation_group_event,
                       relation_event_survey, uuidGen, now,
                       schema, listPage, inflight>>

addEventToGroup(body) ==
    LET req == [body |-> body]
        r == SqlInsertLink(relation_group_event, "event_id", events,
                 "group_id", groups,
                 [event_id |-> body.eventId, group_id |-> body.groupId,
                  created_at |-> now])
    IN  /\ IF FalsyId(body, "eventId") \/ FalsyId(body, "groupId")
           THEN /\ resp' = Reply("addEventToGroup", req, 400,
                                 "Event ID and Group ID are required", {}, 0)
                /\ UNCHANGED relation_group_event
           ELSE IF r.err # ""
           THEN /\ resp' = Reply("addEventToGroup", req, 500,
                                 "Failed to add event to group", {}, 1)
                /\ UNCHANGED relation_group_event
           ELSE /\ relation_group_event' = r.table
                /\ resp' = Reply("addEventToGroup", req, 200, "", {}, 1)
        /\ UNCHANGED <<users, groups, events, surveys, relation_group_user,
                       relation_event_survey, uuidGen, now,
                       schema, listPage, inflight>>

removeEventFromGroup(body) ==
    LET req == [body |-> body]
    IN  /\ IF FalsyId(body, "eventId") \/ FalsyId(body, "groupId")
           THEN /\ resp' = Reply("removeEventFromGroup", req, 400,
                                 "Event ID and Group ID are required", {}, 0)
                /\ UNCHANGED relation_group_event
           ELSE /\ relation_group_event' =
                       SqlDeleteLink(relation_group_event, "event_id",
                                     body.eventId, "group_id", body.groupId)
                /\ resp' = Reply("removeEventFromGroup", req, 200, "", {}, 1)
        /\ UNCHANGED <<users, groups, events, surveys, relation_group_user,
                       relation_event_survey, uuidGen, now,
                       schema, listPage, inflight>>

addSurveyToEvent(body) ==
    LET req == [body |-> body]
        r == SqlInsertLink(relation_event_survey, "survey_id", surveys,
                 "event_id", events,
                 [survey_id |-> body.surveyId, event_id |-> body.eventId,
                  file_final |-> TextOrNull(body, "file_final"),
                  created_at |-> now])
    IN  /\ IF FalsyId(body, "surveyId") \/ FalsyId(body, "eventId")
           THEN /\ resp' = Reply("addSurveyToEvent", req, 400,
                                 "Survey ID and Event ID are required", {}, 0)
                /\ UNCHANGED relation_event_survey
           ELSE IF r.err # ""
           THEN /\ resp' = Reply("addSurveyToEvent", req, 500,
                                 "Failed to add survey to event", {}, 1)
                /\ UNCHANGED relation_event_survey
           ELSE /\ relation_event_survey' = r.table
                /\ resp' = Reply("addSurveyToEvent", req, 200, "", {}, 1)
        /\ UNCHANGED <<users, groups, events, surveys, relation_group_user,
                       relation_group_event, uuidGen, now,
                       schema, listPage, inflight>>

removeSurveyFromEvent(body) ==
    LET req == [body |-> body]
    IN  /\ IF FalsyId(body, "surveyId") \/ FalsyId(body, "eventId")
           THEN /\ resp' = Reply("removeSurveyFromEvent", req, 400,
                                 "Survey ID and Event ID are required", {}, 0)
                /\ UNCHANGED relation_event_survey
           ELSE /\ relation_event_survey' =
                       SqlDeleteLink(relation_event_survey, "survey_id",
                                     body.surveyId, "event_id", body.eventId)
                /\ resp' = Reply("removeSurveyFromEvent", req, 200, "", {}, 1)
        /\ UNCHANGED <<users, groups, events, surveys, relation_group_user,
                       relation_group_event, uuidGen, now,
                       schema, listPage, inflight>>

-----------------------------------------------------------------------------
(* Reads.  json_agg(json_build_object(...)) FILTER (WHERE ... IS NOT NULL) *)
(* gives each row the list of its related rows, [] when there are none.    *)

WithField(row, k, v) ==
    [c \in DOMAIN row \cup {k} |-> IF c = k THEN v ELSE row[c]]

GroupObject == {"uuid", "name", "description"}
UserObject == {"uuid", "username", "email", "role", "status"}
EventObject == {"uuid", "name", "description", "time_start", "time_end",
                "status"}

UserWithGroups(u) ==
    WithField(u, "groups",
        Returning({g \in groups : \E l \in relation_group_user :
                       l.user_id = u.uuid /\ l.group_id = g.uuid},
                  GroupObject))

GroupWithUsers(g) ==
    WithField(g, "users",
        Returning({u \in users : \E l \in relation_group_user :
                       l.group_id = g.uuid /\ l.user_id = u.uuid},
                  UserObject))

EventWithGroups(e) ==
    WithField(e, "groups",
        Returning({g \in groups : \E l \in relation_group_event :
                       l.event_id = e.uuid /\ l.group_id = g.uuid},
                  GroupObject))

SurveyWithEvents(sv) ==
    WithField(sv, "events",
        Returning({e \in events : \E l \in relation_event_survey :
                       l.survey_id = sv.uuid /\ l.event_id = e.uuid},
                  EventObject))

getUserById(id) ==
    LET found == {UserWithGroups(u) : u \in {x \in users : x.uuid = id}}
    IN  /\ resp' = IF found = {}
                   THEN Reply("getUserById", [id |-> id], 404,
                              "User not found", {}, 1)
                   ELSE Reply("getUserById", [id |-> id], 200, "", found, 1)
        /\ UNCHANGED <<tables, uuidGen, now, schema, listPage, inflight>>

getGroupById(id) ==
    LET found == {GroupWithUsers(g) : g \in {x \in groups : x.uuid = id}}
    IN  /\ resp' = IF found = {}
                   THEN Reply("getGroupById", [id |-> id], 404,
                              "Group not found", {}, 1)
                   ELSE Reply("getGroupById", [id |-> id], 200, "", found, 1)
        /\ UNCHANGED <<tables, uuidGen, now, schema, listPage, inflight>>

getEventById(id) ==
    LET found == {EventWithGroups(e) : e \in {x \in events : x.uuid = id}}
    IN  /\ resp' = IF found = {}
                   THEN Reply("getEventById", [id |-> id], 404,
                              "Event not found", {}, 1)
                   ELSE Reply("getEventById", [id |-> id], 200, "", found, 1)
        /\ UNCHANGED <<tables, uuidGen, now, schema, listPage, inflight>>

getSurveyById(id) ==
    LET found == {SurveyWithEvents(sv) : sv \in {x \in surveys : x.uuid = id}}
    IN  /\ resp' = IF found = {}
                   THEN Reply("getSurveyById", [id |-> id], 404,
                              "Survey not found", {}, 1)
                   ELSE Reply("getSurveyById", [id |-> id], 200, "", found, 1)
        /\ UNCHANGED <<tables, uuidGen, now, schema, listPage, inflight>>

-----------------------------------------------------------------------------
(* Lists.  A query carries page, limit, search, role and status; 0, <<>>   *)
(* and "" stand for a parameter that is not sent.                          *)

DefaultPage == 1
DefaultLimit == 10

(* parseInt(x) || d                                                        *)
ParseIntOr(x, d) == IF x = 0 THEN d ELSE x

(* Math.ceil(total / limit), for limit > 0                                 *)
CeilDiv(total, limit) == (total + limit - 1) \div limit

(* ORDER BY col DESC: every order of the rows that is non-increasing in    *)
(* col; the order of rows with equal col is the store's choice.            *)
OrderingsDesc(rows, col) ==
    {s \in [1..Cardinality(rows) -> rows] :
        /\ \A i, j \in DOMAIN s : i # j => s[i] # s[j]
        /\ \A i, j \in DOMAIN s : i < j => s[i][col] >= s[j][col]}

(* LIMIT limit OFFSET offset                                               *)
LimitOffset(seq, limit, offset) ==
    SubSeq(seq, offset + 1,
           IF offset + limit < Len(seq) THEN offset + limit ELSE Len(seq))

Filtering(param) == param # "" /\ param # "all"

(* The WHERE clause of the data query and of the count query of getUsers.  *)
UsersWhere(q, u) ==
    /\ q.search # <<>> =>
           \/ ILike(u.username, SearchPattern(q.search))
           \/ ILike(u.email, SearchPattern(q.search))
    /\ Filtering(q.role) => u.role = q.role
    /\ Filtering(q.status) => u.status = (q.status = "active")

UsersCountWhere(q, u) ==
    /\ q.search # <<>> =>
           \/ ILike(u.username, SearchPattern(q.search))
           \/ ILike(u.email, SearchPattern(q.search))
    /\ Filtering(q.role) => u.role = q.role
    /\ Filtering(q.status) => u.status = (q.status = "active")

GroupsWhere(q, g) ==
    q.search # <<>> =>
        \/ ILike(g.name, SearchPattern(q.search))
        \/ ILike(g.description, SearchPattern(q.search))

GroupsCountWhere(q, g) ==
    q.search # <<>> =>
        \/ ILike(g.name, SearchPattern(q.search))
        \/ ILike(g.description, SearchPattern(q.search))

EventsWhere(q, e) ==
    /\ q.search # <<>> =>
           \/ ILike(e.name, SearchPattern(q.search))
           \/ ILike(e.description, SearchPattern(q.search))
    /\ Filtering(q.status) => e.status = q.status

EventsCountWhere(q, e) ==
    /\ q.search # <<>> =>
           \/ ILike(e.name, SearchPattern(q.search))
           \/ ILike(e.description, SearchPattern(q.search))
    /\ Filtering(q.status) => e.status = q.status

SurveysWhere(q, sv) ==
    /\ q.search # <<>> =>
           \/ ILike(sv.name, SearchPattern(q.search))
           \/ ILike(sv.set_point, SearchPattern(q.search))
    /\ Filtering(q.status) => sv.status = q.status

SurveysCountWhere(q, sv) ==
    /\ q.search # <<>> =>
           \/ ILike(sv.name, SearchPattern(q.search))
           \/ ILike(sv.set_point, SearchPattern(q.search))
    /\ Filtering(q.status) => sv.status = q.status

ListReply(op, q, data, page, limit, total) ==
    [op |-> op, req |-> q, status |-> 200, error |-> "", data |-> data,
     pagination |-> [page |-> page, limit |-> limit, total |-> total,
                     totalPages |-> CeilDiv(total, limit)],
     queries |-> 2]

(* The part the four list handlers share: both queries run on one state    *)
(* of the store; a negative LIMIT or OFFSET is an error of the store.      *)
ListAnswer(op, q, matched, total, orderCol, failure) ==
    LET page == ParseIntOr(q.page, DefaultPage)
        limit == ParseIntOr(q.limit, DefaultLimit)
        offset == (page - 1) * limit
    IN  IF limit < 0 \/ offset < 0
        THEN resp' = Reply(op, q, 500, failure, <<>>, 2)
        ELSE \E order \in OrderingsDesc(matched, orderCol) :
                 resp' = ListReply(op, q, LimitOffset(order, limit, offset),
                                   page, limit, total)

ListRows(op, q, matched, total, orderCol, failure) ==
    /\ ListAnswer(op, q, matched, total, orderCol, failure)
    /\ UNCHANGED <<tables, uuidGen, now, schema, listPage, inflight>>

getUsers(q) ==
    ListRows("getUsers", q,
             {UserWithGroups(u) : u \in {x \in users : UsersWhere(q, x)}},
             Cardinality({x \in users : UsersCountWhere(q, x)}),
             "created_at", "Failed to fetch users")

getGroups(q) ==
    ListRows("getGroups", q,
             {GroupWithUsers(g) : g \in {x \in groups : GroupsWhere(q, x)}},
             Cardinality({x \in groups : GroupsCountWhere(q, x)}),
             "created_at", "Failed to fetch groups")

(* The two statements of a list handler as the two steps they are: they go *)
(* to the pool together under Promise.all, each on a client of its own and *)
(* outside any transaction, the store runs them in either order, and other *)
(* requests' statements run in between.  The handler in flight carries the *)
(* result of the statement that has run.                                   *)
ListCall(op, q, slot, done, data, total) ==
    [op |-> op, id |-> 0, slot |-> slot, q |-> q, done |-> done,
     data |-> data, total |-> total]

PromiseAll(op, q, slot, matched, total, orderCol, failure) ==
    LET page == ParseIntOr(q.page, DefaultPage)
        limit == ParseIntOr(q.limit, DefaultLimit)
        offset == (page - 1) * limit
        Rows(order) == LimitOffset(order, limit, offset)
    IN  /\ \/ /\ SlotFree(slot)
              /\ IF limit < 0 \/ offset < 0
                 THEN /\ resp' = Reply(op, q, 500, failure, <<>>, 2)
                      /\ UNCHANGED inflight
                 ELSE /\ resp' = NoResp
                      /\ \/ \E order \in OrderingsDesc(matched, orderCol) :
                                inflight' = inflight \cup
                                    {ListCall(op, q, slot, "data",
                                              Rows(order), 0)}
                         \/ inflight' = inflight \cup
                                {ListCall(op, q, slot, "count", <<>>, total)}
           \/ \E rq \in {x \in inflight : x.op = op /\ x.slot = slot} :
                  /\ rq.q = q
                  /\ inflight' = inflight \ {rq}
                  /\ IF rq.done = "data"
                     THEN resp' = ListReply(op, q, rq.data, page, limit, total)
                     ELSE \E order \in OrderingsDesc(matched, orderCol) :
                              resp' = ListReply(op, q, Rows(order), page,
                                                limit, rq.total)
        /\ UNCHANGED <<tables, uuidGen, now, schema, listPage>>

getUsersPromiseAll(q, slot) ==
    PromiseAll("getUsers", q, slot,
               {UserWithGroups(u) : u \in {x \in users : UsersWhere(q, x)}},
               Cardinality({x \in users : UsersCountWhere(q, x)}),
               "created_at", "Failed to fetch users")

getGroupsPromiseAll(q, slot) ==
    PromiseAll("getGroups", q, slot,
               {GroupWithUsers(g) : g \in {x \in groups : GroupsWhere(q, x)}},
               Cardinality({x \in groups : GroupsCountWhere(q, x)}),
               "created_at", "Failed to fetch groups")

getEvents(q) ==
    ListRows("getEvents", q,
             {EventWithGroups(e) : e \in {x \in events : EventsWhere(q, x)}},
             Cardinality({x \in events : EventsCountWhere(q, x)}),
             "time_start", "Failed to fetch events")

getSurveys(q) ==
    ListRows("getSurveys", q,
             {SurveyWithEvents(sv) :
                  sv \in {x \in surveys : SurveysWhere(q, x)}},
             Cardinality({x \in surveys : SurveysCountWhere(q, x)}),
             "created_at", "Failed to fetch surveys")

-----------------------------------------------------------------------------
(* The Surveys page.  Its state is the useState values; a fetch in flight  *)
(* carries the page and the filter of the render that sent it, a delete in *)
(* flight those of the render whose button was clicked.  The pages of      *)
(* groups, users and events have the same state, effects and buttons.  The *)
(* search box acts as the status filter does and is left empty.            *)

PageSize == 2

(* fetchSurveys up to its await: setLoading(true) and the request.         *)
Sent(p, fetches) == [p EXCEPT !.loading = TRUE, !.fetches = @ \cup fetches]

ClientStep ==
    /\ resp' = NoResp
    /\ UNCHANGED <<tables, uuidGen, now, schema, inflight>>

(* The buttons are rendered when the table is, with more than one page,    *)
(* and the effect on currentPage sends a fetch when the page has changed.  *)
clickNext ==
    LET p == listPage
        next == IF p.currentPage + 1 < p.totalPages THEN p.currentPage + 1
                ELSE p.totalPages
    IN  /\ ~p.loading /\ p.totalPages > 1 /\ p.currentPage # p.totalPages
        /\ listPage' = Sent([p EXCEPT !.currentPage = next],
                            {Fetch(next, p.statusFilter)})
        /\ ClientStep

clickPrevious ==
    LET p == listPage
        prev == IF p.currentPage - 1 > 1 THEN p.currentPage - 1 ELSE 1
    IN  /\ ~p.loading /\ p.totalPages > 1 /\ p.currentPage # 1
        /\ listPage' = Sent([p EXCEPT !.currentPage = prev],
                            {Fetch(prev, p.statusFilter)})
        /\ ClientStep

(* The render with the new filter runs both effects: setCurrentPage(1),    *)
(* and fetchSurveys with the page of that render; the render with page 1,  *)
(* when the page was another, runs fetchSurveys again.                     *)
setStatusFilter(status) ==
    LET p == listPage
    IN  /\ status # p.statusFilter
        /\ listPage' =
               Sent([p EXCEPT !.statusFilter = status, !.currentPage = 1],
                    {Fetch(p.currentPage, status), Fetch(1, status)})
        /\ ClientStep

(* The answer of GET /api/surveys to a fetch, and what fetchSurveys does   *)
(* with it.                                                                *)
fetchSurveys(f) ==
    LET q == [page |-> f.page, limit |-> PageSize, search |-> <<>>,
              role |-> "", status |-> IF f.status = "all" THEN "" ELSE f.status]
        p == [listPage EXCEPT !.loading = FALSE, !.fetches = @ \ {f}]
    IN  /\ f \in listPage.fetches
        /\ ListAnswer("getSurveys", q,
               {SurveyWithEvents(sv) :
                    sv \in {x \in surveys : SurveysWhere(q, x)}},
               Cardinality({x \in surveys : SurveysCountWhere(q, x)}),
               "created_at", "Failed to fetch surveys")
        /\ listPage' =
               IF resp'.status = 200
               THEN [p EXCEPT
                        !.surveys = {resp'.data[i].uuid :
                                         i \in DOMAIN resp'.data},
                        !.totalPages = resp'.pagination.totalPages]
               ELSE p
        /\ UNCHANGED <<tables, uuidGen, now, schema, inflight>>

(* The Delete item of a row of the table sends DELETE /api/surveys/:id.    *)
clickDelete(id) ==
    LET p == listPage
    IN  /\ ~p.loading /\ id \in p.surveys
        /\ listPage' =
               [p EXCEPT !.deletes = @ \cup
                    {[id |-> id, page |-> p.currentPage,
                      status |-> p.statusFilter]}]
        /\ ClientStep

(* deleteSurvey of the page after its await: on success it refreshes the   *)
(* list with fetchSurveys.                                                 *)
deleteSurveyAnswered(d) ==
    /\ d \in listPage.deletes
    /\ resp.op = "deleteSurvey" /\ resp.req.id = d.id
    /\ listPage' =
           LET p == [listPage EXCEPT !.deletes = @ \ {d}]
           IN  IF resp.status = 200
               THEN Sent(p, {Fetch(d.page, d.status)})
               ELSE p
    /\ ClientStep

-----------------------------------------------------------------------------
(* Startup.  createServer calls initializeDatabase without awaiting it:    *)
(* testConnection, then createTables in one transaction, then seedDatabase *)
(* in a transaction of its own.  The startup in flight is a record naming  *)
(* the function it runs next.                                              *)

Startup(next) == [op |-> next, id |-> 0, slot |-> 0]

(* A client of the pool that pool.connect has handed out and on which      *)
(* client.release has not been called.                                     *)
Client(slot) == [op |-> "client", id |-> 0, slot |-> slot]

CheckedOut == {rq \in inflight : rq.op = "client"}

(* clients: the clients checked out once the step is over.                 *)
Proceed(from, to, clients) ==
    /\ inflight' = ((inflight \ CheckedOut) \ {Startup(from)})
                       \cup clients \cup {Startup(to)}
    /\ resp' = NoResp

(* What initializeDatabase writes to the log when it ends.                 *)
Finish(from, error, clients) ==
    /\ inflight' = ((inflight \ CheckedOut) \ {Startup(from)}) \cup clients
    /\ resp' = Reply("initializeDatabase", [id |-> 0], 0, error, {}, 0)

(* connect: whether pool.connect resolves; query: whether SELECT NOW()     *)
(* resolves.  client.release is the statement after the query inside the   *)
(* try block, and the catch block returns false without a release.         *)
testConnection(connect, query) ==
    /\ Startup("testConnection") \in inflight
    /\ IF ~connect
       THEN Finish("testConnection", "Database connection failed", CheckedOut)
       ELSE \E slot \in Slots :
                /\ SlotFree(slot)
                /\ IF query
                   THEN Proceed("testConnection", "createTables", CheckedOut)
                   ELSE Finish("testConnection", "Database connection failed",
                               CheckedOut \cup {Client(slot)})
    /\ UNCHANGED <<tables, uuidGen, now, schema, listPage>>

(* BEGIN, CREATE TABLE IF NOT EXISTS and CREATE INDEX IF NOT EXISTS for    *)
(* every relation, COMMIT; a statement that fails rolls all of them back.  *)
(* The client is connected before the try block and released in finally.   *)
(* accepted: whether the store accepts every statement.                    *)
createTables(accepted) ==
    /\ Startup("createTables") \in inflight
    /\ \E slot \in Slots :
           /\ SlotFree(slot)
           /\ IF accepted
              THEN /\ schema' = schema \cup Relations
                   /\ Proceed("createTables", "seedDatabase", CheckedOut)
              ELSE /\ schema' = schema
                   /\ Finish("createTables", "Database initialization failed",
                             CheckedOut)
    /\ UNCHANGED <<tables, uuidGen, now, listPage>>

SampleUsers ==
    <<[username |-> <<"john.doe">>, email |-> <<"john.doe@example.com">>,
       role |-> "admin"],
      [username |-> <<"jane.smith">>, email |-> <<"jane.smith@example.com">>,
       role |-> "user"],
      [username |-> <<"mike.johnson">>,
       email |-> <<"mike.johnson@example.com">>, role |-> "moderator"],
      [username |-> <<"sarah.wilson">>,
       email |-> <<"sarah.wilson@example.com">>, role |-> "user"],
      [username |-> <<"david.brown">>,
       email |-> <<"david.brown@example.com">>, role |-> "user"]>>

SampleGroups ==
    <<[name |-> <<"Engineering">>,
       description |-> <<"Software development team">>],
      [name |-> <<"Marketing">>,
       description |-> <<"Marketing and growth team">>],
      [name |-> <<"Support">>, description |-> <<"Customer support team">>],
      [name |-> <<"QA">>, description |-> <<"Quality assurance team">>],
      [name |-> <<"Design">>, description |-> <<"UI/UX design team">>],
      [name |-> <<"DevOps">>,
       description |-> <<"DevOps and infrastructure team">>],
      [name |-> <<"Management">>,
       description |-> <<"Management and leadership">>]>>

(* The rows the seed inserts, with uuids from first + 1 on, all at the     *)
(* time of the transaction.                                                *)
SampleUserRows(first, ts) ==
    {UserRow(first + i, SampleUsers[i].username, SampleUsers[i].email,
             SampleUsers[i].role, <<"$2b$10$example.hash">>, ts) :
         i \in DOMAIN SampleUsers}

SampleGroupRows(first, ts) ==
    {GroupRow(first + i, SampleGroups[i].name, SampleGroups[i].description,
              ts) : i \in DOMAIN SampleGroups}

(* The count of the rows of users, and when it is 0 the transaction of    *)
(* the inserts: the first insert that fails rolls all of them back.  The   *)
(* client is connected before the try block, held from the count to the    *)
(* end of the transaction, and released in finally: after the early        *)
(* return, after COMMIT and after ROLLBACK.                                 *)
(* accepted: whether the store stays reachable during the step.            *)
seedDatabase(accepted) ==
    \/ /\ Startup("seedDatabase") \in inflight
       /\ \E slot \in Slots :
              /\ SlotFree(slot)
              /\ IF ~accepted
                 THEN Finish("seedDatabase", "Database initialization failed",
                             CheckedOut)
                 ELSE IF Cardinality(users) > 0
                      THEN Finish("seedDatabase", "", CheckedOut)
                      ELSE Proceed("seedDatabase", "seedDatabase.BEGIN",
                                   CheckedOut \cup {Client(slot)})
       /\ UNCHANGED <<tables, uuidGen, now, schema, listPage>>
    \/ /\ Startup("seedDatabase.BEGIN") \in inflight
       /\ LET newUsers == SampleUserRows(uuidGen, now)
              newGroups == SampleGroupRows(uuidGen + Len(SampleUsers), now)
              conflict ==
                  \/ \E r \in newUsers :
                         FirstConflict(UserUnique, r, users) # ""
                  \/ \E r \in newGroups :
                         FirstConflict(GroupUnique, r, groups) # ""
          IN  \E client \in CheckedOut :
                  IF accepted /\ ~conflict
                  THEN /\ users' = users \cup newUsers
                       /\ groups' = groups \cup newGroups
                       /\ uuidGen' =
                              uuidGen + Len(SampleUsers) + Len(SampleGroups)
                       /\ Finish("seedDatabase.BEGIN", "",
                                 CheckedOut \ {client})
                  ELSE /\ UNCHANGED <<users, groups, uuidGen>>
                       /\ Finish("seedDatabase.BEGIN",
                                 "Database initialization failed",
                                 CheckedOut \ {client})
       /\ UNCHANGED <<events, surveys, relation_group_user,
                      relation_group_event, relation_event_survey, now,
                      schema, listPage>>

-----------------------------------------------------------------------------
(* Dashboard.  One SELECT of seven scalar subqueries: one statement, so    *)
(* one snapshot of the store.  The store sends each count as the decimal   *)
(* text of a bigint and the handler reads it back with parseInt.           *)

SqlCountWhere_All(table, col, v) == Cardinality(table)

(* The count of the rows of table WHERE col = v.                           *)
SqlCountWhere(table, col, v) == Cardinality({r \in table : r[col] = v})

RECURSIVE BigintOut(_)
BigintOut(n) ==
    IF n < 10 THEN <<n>> ELSE Append(BigintOut(n \div 10), n % 10)

RECURSIVE parseInt(_)
parseInt(text) ==
    IF Len(text) = 1 THEN text[1]
    ELSE 10 * parseInt(SubSeq(text, 1, Len(text) - 1)) + text[Len(text)]

getDashboardStats ==
    LET stats ==
            [total_users |-> BigintOut(Cardinality(users)),
             total_groups |-> BigintOut(Cardinality(groups)),
             total_events |-> BigintOut(Cardinality(events)),
             total_surveys |-> BigintOut(Cardinality(surveys)),
             active_users |-> BigintOut(SqlCountWhere(users, "status", TRUE)),
             active_events |->
                 BigintOut(SqlCountWhere(events, "status", "active")),
             active_surveys |->
                 BigintOut(SqlCountWhere(surveys, "status", "active"))]
        dashboardStats ==
            [totalUsers |-> parseInt(stats.total_users),
             totalGroups |-> parseInt(stats.total_groups),
             totalEvents |-> parseInt(stats.total_events),
             totalSurveys |-> parseInt(stats.total_surveys),
             activeUsers |-> parseInt(stats.active_users),
             activeEvents |-> parseInt(stats.active_events),
             activeSurveys |-> parseInt(stats.active_surveys)]
    IN  /\ resp' = Reply("getDashboardStats", [id |-> 0], 200, "",
                         {dashboardStats}, 1)
        /\ UNCHANGED <<tables, uuidGen, now, schema, listPage, inflight>>

-----------------------------------------------------------------------------
(* Recent activity.  Two statements, each ORDER BY created_at DESC LIMIT   *)
(* Math.ceil(limit / 2), one on users and one on groups; their rows are    *)
(* concatenated, sorted by time and cut to limit.                          *)

(* row => ({type, action, details, time, status})                          *)
Activity(type, row) ==
    [type |-> type,
     action |-> IF type = "user" THEN "New user registered"
                ELSE "Group created",
     details |-> IF type = "user" THEN row.email ELSE row.name,
     time |-> row.created_at,
     status |-> IF type = "user" THEN "success" ELSE "info"]

(* Array.prototype.sort with (a, b) => b.time - a.time: a stable sort,     *)
(* later times first.                                                      *)
RECURSIVE SortByTimeDesc(_)
SortByTimeDesc(seq) ==
    IF seq = <<>> THEN <<>>
    ELSE LET i == CHOOSE i \in DOMAIN seq :
                      /\ \A j \in DOMAIN seq : seq[j].time <= seq[i].time
                      /\ \A j \in 1..(i - 1) : seq[j].time < seq[i].time
         IN  <<seq[i]>> \o
                 SortByTimeDesc(SubSeq(seq, 1, i - 1)
                                    \o SubSeq(seq, i + 1, Len(seq)))

(* .slice(0, limit) for limit >= 0                                         *)
Slice(seq, limit) ==
    SubSeq(seq, 1, IF limit < Len(seq) THEN limit ELSE Len(seq))

(* Math.ceil(limit / 2): the LIMIT of each of the two statements.          *)
PerTable(limit) == (limit + 1) \div 2

getRecentActivity(q) ==
    LET limit == ParseIntOr(q.limit, DefaultLimit)
    IN  /\ IF PerTable(limit) < 0
           THEN resp' = Reply("getRecentActivity", q, 500,
                              "Failed to fetch recent activity", <<>>, 2)
           ELSE \E us \in OrderingsDesc(users, "created_at"),
                   gs \in OrderingsDesc(groups, "created_at") :
                    LET usersResult == LimitOffset(us, PerTable(limit), 0)
                        groupsResult == LimitOffset(gs, PerTable(limit), 0)
                        activities ==
                            [i \in DOMAIN usersResult |->
                                 Activity("user", usersResult[i])]
                              \o [i \in DOMAIN groupsResult |->
                                      Activity("group", groupsResult[i])]
                    IN  resp' = Reply("getRecentActivity", q, 200, "",
                                      Slice(SortByTimeDesc(activities), limit),
                                      2)
        /\ UNCHANGED <<tables, uuidGen, now, schema, listPage, inflight>>

-----------------------------------------------------------------------------
(* The entity forms of the client in edit mode.  A form is opened on an    *)
(* entity the client has fetched, shows its values, and on submit sends    *)
(* the fields whose shown value was changed.                               *)

OrEmpty_Same(text) == text

(* x || ""                                                                 *)
OrEmpty(text) == IF text = NULL THEN <<>> ELSE text

(* if (changed) payload.k = v                                              *)
PayloadField(changed, k, v) == IF changed THEN [x \in {k} |-> v] ELSE Empty

(* The instants of one minute: a time of the store counts seconds, the     *)
(* datetime-local input of the form counts minutes.                        *)
SecondsPerMinute == 2

(* formatDateTimeLocal(dateString): year to minutes, the seconds dropped.  *)
formatDateTimeLocal(time) == time \div SecondsPerMinute

(* new Date(local).toISOString(): the instant at which the minute starts.  *)
toISOString(local) == local * SecondsPerMinute

(* A JSON text is the value it denotes, the order of its keys and its      *)
(* white space; a parsed value keeps the order of the keys.  A form read   *)
(* from a response has its keys in the store's order.                      *)
JsonParse(text) == [kind |-> text.kind, v |-> text.v, order |-> text.order]

JsonText(value, space) ==
    [kind |-> value.kind, v |-> value.v, order |-> value.order,
     space |-> space]

Received(form) == [kind |-> form.kind, v |-> form.v, order |-> 0]

GroupFormPayload(data, group) ==
    PayloadField(data.name # group.name, "name", data.name)
      @@ PayloadField(data.description # OrEmpty(group.description),
                      "description", data.description)

UserFormPayload(data, user) ==
    PayloadField(data.username # user.username, "username", data.username)
      @@ PayloadField(data.email # user.email, "email", data.email)
      @@ PayloadField(data.role # user.role, "role", data.role)
      @@ PayloadField(data.status # user.status, "status", data.status)
      @@ PayloadField(data.password # <<>>, "password", data.password)

EventFormPayload(data, event) ==
    PayloadField(data.name # event.name, "name", data.name)
      @@ PayloadField(data.description # OrEmpty(event.description),
                      "description", data.description)
      @@ PayloadField(formatDateTimeLocal(event.time_start) # data.time_start,
                      "time_start", toISOString(data.time_start))
      @@ PayloadField(formatDateTimeLocal(event.time_end) # data.time_end,
                      "time_end", toISOString(data.time_end))
      @@ PayloadField(data.status # event.status, "status", data.status)

SurveyFormPayload(data, survey) ==
    LET formObject == JsonParse(data.form_json)
    IN  PayloadField(data.name # survey.name, "name", data.name)
          @@ PayloadField(JsonText(formObject, 0)
                              # JsonText(Received(survey.form), 0),
                          "form", formObject)
          @@ PayloadField(data.set_point # OrEmpty(survey.set_point),
                          "set_point", data.set_point)
          @@ PayloadField(data.status # survey.status, "status", data.status)

(* onSubmit in edit mode: PUT /api/<entity>/<uuid> with the payload.  The  *)
(* event form submits only when its end is after its start.                *)
submitGroupForm(group, data) ==
    updateGroup(group.uuid, GroupFormPayload(data, group))

submitUserForm(user, data) ==
    updateUser(user.uuid, UserFormPayload(data, user))

submitEventForm(event, data) ==
    /\ toISOString(data.time_end) > toISOString(data.time_start)
    /\ updateEvent(event.uuid, EventFormPayload(data, event))

submitSurveyForm(survey, data) ==
    updateSurvey(survey.uuid, SurveyFormPayload(data, survey))

-----------------------------------------------------------------------------
(* The catch blocks.  Every handler wraps its statements in try and        *)
(* answers from catch when pool.query rejects, whatever the error is.      *)

(* res.status(...) of the catch block.                                     *)
CatchStatus(op) ==
    IF op \in {"createUser", "createGroup", "createEvent", "createSurvey",
              "updateUser", "updateGroup", "updateEvent", "updateSurvey"}
    THEN 400
    ELSE 500

(* The error of the catch block for an error that carries no code.         *)
CatchError(op) ==
    CASE op = "createUser" -> "Failed to create user"
      [] op = "updateUser" -> "Failed to update user"
      [] op = "deleteUser" -> "Failed to delete user"
      [] op = "getUserById" -> "Failed to fetch user"
      [] op = "createGroup" -> "Failed to create group"
      [] op = "updateGroup" -> "Failed to update group"
      [] op = "deleteGroup" -> "Failed to delete group"
      [] op = "getGroupById" -> "Failed to fetch group"
      [] op = "createEvent" -> "Failed to create event"
      [] op = "updateEvent" -> "Failed to update event"
      [] op = "deleteEvent" -> "Failed to delete event"
      [] op = "createSurvey" -> "Failed to create survey"
      [] op = "updateSurvey" -> "Failed to update survey"
      [] op = "deleteSurvey" -> "Failed to delete survey"
      [] op = "addUserToGroup" -> "Failed to add user to group"
      [] op = "removeUserFromGroup" -> "Failed to remove user from group"

(* The request reaches its first statement and the store does not answer   *)
(* it: the connection is lost, the pool times out.                         *)
queryRejected(op, req) ==
    /\ resp' = Reply(op, req, CatchStatus(op), CatchError(op), {}, 1)
    /\ UNCHANGED <<tables, uuidGen, now, schema, listPage, inflight>>

-----------------------------------------------------------------------------
(* Time passes.                                                            *)

Tick ==
    /\ now < MaxClock
    /\ now' = now + 1
    /\ resp' = NoResp
    /\ UNCHANGED <<tables, uuidGen, inflight, schema, listPage>>

-----------------------------------------------------------------------------

Init ==
    /\ users = {}
    /\ groups = {}
    /\ events = {}
    /\ surveys = {}
    /\ relation_group_user = {}
    /\ relation_group_event = {}
    /\ relation_event_survey = {}
    /\ uuidGen = 0
    /\ now = 1
    /\ inflight = {}
    /\ schema = Relations
    /\ listPage = Mounted
    /\ resp = NoResp

-----------------------------------------------------------------------------
(* The requests the model explores.                                        *)

MaxTime == 2

TimeInputs == {BadDate} \cup (1..MaxTime)

GroupNames == {<<"a">>, <<"A">>}
GroupBodies ==
    {n @@ d : n \in {Empty} \cup [name : GroupNames],
              d \in {Empty} \cup [description : {NULL, <<>>, <<"d">>}]}

EventBodies ==
    {n @@ s @@ e : n \in {Empty} \cup [name : {<<"a">>}],
                   s \in {Empty} \cup [time_start : TimeInputs],
                   e \in {Empty} \cup [time_end : TimeInputs]}

(* Groups alone.                                                           *)
MaxGroups == 2

NextGroups ==
    \/ \E body \in GroupBodies :
           createGroup(body) /\ uuidGen' <= MaxGroups
    \/ \E id \in 1..MaxGroups, body \in GroupBodies : updateGroup(id, body)
    \/ Tick

SpecGroups == Init /\ [][NextGroups]_vars

(* Events alone.                                                           *)
MaxEvents == 2

NextEvents ==
    \/ \E body \in EventBodies :
           createEvent(body) /\ uuidGen' <= MaxEvents
    \/ \E id \in 1..MaxEvents, body \in EventBodies : updateEvent(id, body)
    \/ Tick

SpecEvents == Init /\ [][NextEvents]_vars

(* One update request against a populated store: two rows in each table    *)
(* and one link in each join table, as creates and add-links leave them.   *)
TwoUsers ==
    {UserRow(1, <<"a">>, <<"x">>, "user", <<"p">>, 1),
     UserRow(2, <<"b">>, <<"y">>, "admin", <<"p">>, 1)}
TwoGroups ==
    {GroupRow(3, <<"a">>, NULL, 1), GroupRow(4, <<"A">>, <<"d">>, 1)}
TwoEvents ==
    {EventRow(5, <<"a">>, NULL, 1, 2, "scheduled", 1),
     EventRow(6, <<"a">>, <<"d">>, 1, 2, "active", 1)}
TwoSurveys ==
    {SurveyRow(7, <<"a">>, JsonStringify([kind |-> "object", v |-> 1]),
               NULL, "active", 1),
     SurveyRow(8, <<"a">>, JsonStringify([kind |-> "object", v |-> 2]),
               <<"s">>, "inactive", 1)}
RowsStored ==
    Cardinality(TwoUsers) + Cardinality(TwoGroups)
        + Cardinality(TwoEvents) + Cardinality(TwoSurveys)

InitUpdate ==
    /\ users = TwoUsers
    /\ groups = TwoGroups
    /\ events = TwoEvents
    /\ surveys = TwoSurveys
    /\ relation_group_user = {[user_id |-> 1, group_id |-> 3, created_at |-> 1]}
    /\ relation_group_event =
           {[event_id |-> 5, group_id |-> 3, created_at |-> 1]}
    /\ relation_event_survey =
           {[survey_id |-> 7, event_id |-> 5, file_final |-> NULL,
             created_at |-> 1]}
    /\ uuidGen = RowsStored
    /\ now \in 1..MaxClock
    /\ inflight = {}
    /\ schema = Relations
    /\ listPage = Mounted
    /\ resp = NoResp

UserUpdates ==
    {u @@ e @@ r @@ t :
        u \in {Empty} \cup [username : {NULL, <<"b">>, <<"c">>}],
        e \in {Empty} \cup [email : {<<"y">>, <<"z">>}],
        r \in {Empty} \cup [role : {"admin", "moderator"}],
        t \in {Empty} \cup [status : BOOLEAN]}

GroupUpdates ==
    {n @@ d : n \in {Empty} \cup [name : {NULL, <<"A">>, <<"b">>}],
              d \in {Empty} \cup [description : {NULL, <<>>, <<"e">>}]}

EventUpdates ==
    {n @@ d @@ s @@ e @@ t :
        n \in {Empty} \cup [name : {<<"b">>}],
        d \in {Empty} \cup [description : {NULL, <<"e">>}],
        s \in {Empty} \cup [time_start : TimeInputs \cup {NullTime}],
        e \in {Empty} \cup [time_end : TimeInputs \cup {NullTime}],
        t \in {Empty} \cup [status : {"completed"}]}

FormInputs ==
    {[kind |-> "object", v |-> 2], [kind |-> "object", v |-> 3],
     [kind |-> "array", v |-> 1], [kind |-> "null", v |-> 0],
     [kind |-> "string", v |-> 0], [kind |-> "string", v |-> 1]}

SurveyUpdates ==
    {n @@ f @@ p @@ t :
        n \in {Empty} \cup [name : {<<"b">>}],
        f \in {Empty} \cup [form : FormInputs],
        p \in {Empty} \cup [set_point : {NULL, <<"t">>}],
        t \in {Empty} \cup [status : {"completed"}]}

(* The identifiers a request can name: every row's, one of no row, and a   *)
(* text that is no uuid.                                                   *)
UpdateIds == {BadUuid} \cup 1..(RowsStored + 1)

NextUpdate ==
    \/ \E id \in UpdateIds, body \in UserUpdates :
           resp = NoResp /\ updateUser(id, body)
    \/ \E id \in UpdateIds, body \in GroupUpdates :
           resp = NoResp /\ updateGroup(id, body)
    \/ \E id \in UpdateIds, body \in EventUpdates :
           resp = NoResp /\ updateEvent(id, body)
    \/ \E id \in UpdateIds, body \in SurveyUpdates :
           resp = NoResp /\ updateSurvey(id, body)

SpecUpdate == InitUpdate /\ [][NextUpdate]_vars

(* One list request against a populated store: three rows in each table,   *)
(* two of them created at the same time.                                   *)
ThreeUsers ==
    {UserRow(1, <<"a">>, <<"x">>, "user", <<"p">>, 1),
     [UserRow(2, <<"A", "b">>, <<"y">>, "admin", <<"p">>, 1)
          EXCEPT !.status = FALSE],
     UserRow(3, <<"b">>, <<"z", "a">>, "user", <<"p">>, 2)}
ThreeGroups ==
    {GroupRow(4, <<"a">>, NULL, 1), GroupRow(5, <<"A", "b">>, <<"e">>, 1),
     GroupRow(6, <<"b">>, <<"a">>, 2)}
ThreeEvents ==
    {EventRow(7, <<"a">>, NULL, 1, 2, "scheduled", 1),
     EventRow(8, <<"b">>, <<"A">>, 1, 2, "active", 1),
     EventRow(9, <<"A", "b">>, NULL, 2, 3, "active", 2)}
ThreeSurveys ==
    {SurveyRow(10, <<"a">>, JsonStringify([kind |-> "object", v |-> 1]),
               NULL, "active", 1),
     SurveyRow(11, <<"b">>, JsonStringify([kind |-> "object", v |-> 1]),
               <<"A">>, "inactive", 1),
     SurveyRow(12, <<"A", "b">>, JsonStringify([kind |-> "object", v |-> 2]),
               NULL, "active", 2)}

InitList ==
    /\ users = ThreeUsers
    /\ groups = ThreeGroups
    /\ events = ThreeEvents
    /\ surveys = ThreeSurveys
    /\ relation_group_user = {[user_id |-> 1, group_id |-> 4, created_at |-> 1]}
    /\ relation_group_event =
           {[event_id |-> 7, group_id |-> 4, created_at |-> 1]}
    /\ relation_event_survey =
           {[survey_id |-> 10, event_id |-> 7, file_final |-> NULL,
             created_at |-> 1]}
    /\ uuidGen = Cardinality(ThreeUsers) + Cardinality(ThreeGroups)
                     + Cardinality(ThreeEvents) + Cardinality(ThreeSurveys)
    /\ now = MaxClock
    /\ inflight = {}
    /\ schema = Relations
    /\ listPage = Mounted
    /\ resp = NoResp

(* The query strings: page and limit absent (0), positive or negative;     *)
(* search absent or a text, with and without the characters LIKE reads as  *)
(* wildcards; role and status absent, "all" or a value of the enumeration. *)
ListPages == {0, 1, 2, 3, 0 - 1}
ListLimits == {0, 1, 2, 0 - 1}
Searches == {<<>>, <<"a">>, <<"A", "B">>, <<"_">>}

UserQueries ==
    [page : ListPages, limit : ListLimits, search : Searches,
     role : {"", "all", "admin"},
     status : {"", "all", "active", "inactive"}]
GroupQueries ==
    [page : ListPages, limit : ListLimits, search : Searches,
     role : {""}, status : {""}]
EventQueries ==
    [page : ListPages, limit : ListLimits, search : Searches,
     role : {""}, status : {"", "all", "active"}]
SurveyQueries ==
    [page : ListPages, limit : ListLimits, search : Searches,
     role : {""}, status : {"", "all", "inactive"}]

NextList ==
    \/ \E q \in UserQueries : resp = NoResp /\ getUsers(q)
    \/ \E q \in GroupQueries : resp = NoResp /\ getGroups(q)
    \/ \E q \in EventQueries : resp = NoResp /\ getEvents(q)
    \/ \E q \in SurveyQueries : resp = NoResp /\ getSurveys(q)

SpecList == InitList /\ [][NextList]_vars

(* Creates and updates of users and groups, interleaved, from the empty    *)
(* store.                                                                  *)
UserNames == {<<"a">>, <<"b">>}
UserEmails == {<<"x">>, <<"y">>}
UserBodies ==
    {u @@ e @@ p : u \in {Empty} \cup [username : UserNames],
                   e \in {Empty} \cup [email : UserEmails],
                   p \in {Empty} \cup [password : {<<"p">>}]}
UserRenames ==
    {u @@ e : u \in {Empty} \cup [username : UserNames],
              e \in {Empty} \cup [email : UserEmails]}
GroupRenames == {Empty} \cup [name : GroupNames]

MaxRows == 2

NextUnique ==
    \/ \E body \in UserBodies : createUser(body) /\ uuidGen' <= MaxRows
    \/ \E id \in 1..MaxRows, body \in UserRenames : updateUser(id, body)
    \/ \E body \in GroupRenames : createGroup(body) /\ uuidGen' <= MaxRows
    \/ \E id \in 1..MaxRows, body \in GroupRenames : updateGroup(id, body)

SpecUnique == Init /\ [][NextUnique]_vars

(* Deletes and links over a store of one user, two groups, one event and   *)
(* one survey, with one more row of any kind created on the way.           *)
UserIds == {1}
GroupIds == {2, 3}
EventIds == {4}
SurveyIds == {5}

InitLinks ==
    /\ users = {UserRow(u, <<"a">>, <<"x">>, "user", <<"p">>, 1) :
                    u \in UserIds}
    /\ groups = {GroupRow(g, IF g = 2 THEN <<"a">> ELSE <<"A">>, NULL, 1) :
                     g \in GroupIds}
    /\ events = {EventRow(e, <<"a">>, NULL, 1, 2, "scheduled", 1) :
                     e \in EventIds}
    /\ surveys = {SurveyRow(sv, <<"a">>,
                            JsonStringify([kind |-> "object", v |-> 1]),
                            NULL, "active", 1) : sv \in SurveyIds}
    /\ relation_group_user = {}
    /\ relation_group_event = {}
    /\ relation_event_survey = {}
    /\ uuidGen = Cardinality(UserIds) + Cardinality(GroupIds)
                     + Cardinality(EventIds) + Cardinality(SurveyIds)
    /\ now = 1
    /\ inflight = {}
    /\ schema = Relations
    /\ listPage = Mounted
    /\ resp = NoResp

UserGroupLinks == [userId : {0} \cup UserIds, groupId : GroupIds]
EventGroupLinks == [eventId : {0} \cup EventIds, groupId : GroupIds]
SurveyEventLinks ==
    {l @@ f : l \in [surveyId : SurveyIds, eventId : {0} \cup EventIds],
              f \in {Empty} \cup [file_final : {<<"f">>}]}

MaxCreated == 1
RowsLinked ==
    Cardinality(UserIds) + Cardinality(GroupIds) + Cardinality(EventIds)
        + Cardinality(SurveyIds)

NextLinks ==
    \/ /\ createUser([username |-> <<"b">>, email |-> <<"y">>,
                      password |-> <<"p">>])
       /\ uuidGen' <= RowsLinked + MaxCreated
    \/ /\ createGroup([name |-> <<"b">>])
       /\ uuidGen' <= RowsLinked + MaxCreated
    \/ /\ createEvent([name |-> <<"b">>, time_start |-> 1, time_end |-> 2])
       /\ uuidGen' <= RowsLinked + MaxCreated
    \/ /\ createSurvey([name |-> <<"b">>,
                        form |-> [kind |-> "object", v |-> 1]])
       /\ uuidGen' <= RowsLinked + MaxCreated
    \/ \E id \in UserIds, slot \in Slots : deleteUser(id, slot)
    \/ \E id \in GroupIds, slot \in Slots : deleteGroup(id, slot)
    \/ \E id \in EventIds, slot \in Slots : deleteEvent(id, slot)
    \/ \E id \in SurveyIds, slot \in Slots : deleteSurvey(id, slot)
    \/ \E body \in UserGroupLinks : addUserToGroup(body)
    \/ \E body \in UserGroupLinks : removeUserFromGroup(body)
    \/ \E body \in EventGroupLinks : addEventToGroup(body)
    \/ \E body \in EventGroupLinks : removeEventFromGroup(body)
    \/ \E body \in SurveyEventLinks : addSurveyToEvent(body)
    \/ \E body \in SurveyEventLinks : removeSurveyFromEvent(body)

SpecLinks == InitLinks /\ [][NextLinks]_vars

(* The life of a group: created, searched for by its name, read, deleted.  *)
(* A name is any non-empty text, a backslash included.                     *)
NamesOfGroups == {<<"a">>, <<"A", "%">>, <<"\\">>}

NextGroupLife ==
    \/ \E n \in NamesOfGroups :
           createGroup([name |-> n]) /\ uuidGen' <= MaxGroups
    \/ \E q \in [page : {0}, limit : {0}, search : NamesOfGroups,
                   role : {""}, status : {""}] : getGroups(q)
    \/ \E id \in 1..MaxGroups : getGroupById(id)
    \/ \E id \in 1..MaxGroups, slot \in Slots : deleteGroup(id, slot)

SpecGroupLife == Init /\ [][NextGroupLife]_vars

(* Routing.  Express tries the routes in the order createServer registers  *)
(* them and runs the first whose method and path pattern match; a pattern  *)
(* segment :id matches any segment.                                        *)
Route(m, p, h) == [method |-> m, path |-> p, handler |-> h]

Routes ==
    <<Route("GET", <<"api", "ping">>, "ping"),
      Route("GET", <<"api", "demo">>, "handleDemo"),
      Route("GET", <<"api", "dashboard", "stats">>, "getDashboardStats"),
      Route("GET", <<"api", "dashboard", "activity">>, "getRecentActivity"),
      Route("GET", <<"api", "users">>, "getUsers"),
      Route("GET", <<"api", "users", ":id">>, "getUserById"),
      Route("POST", <<"api", "users">>, "createUser"),
      Route("PUT", <<"api", "users", ":id">>, "updateUser"),
      Route("DELETE", <<"api", "users", ":id">>, "deleteUser"),
      Route("POST", <<"api", "users", "group">>, "addUserToGroup"),
      Route("DELETE", <<"api", "users", "group">>, "removeUserFromGroup"),
      Route("GET", <<"api", "groups">>, "getGroups"),
      Route("GET", <<"api", "groups", ":id">>, "getGroupById"),
      Route("POST", <<"api", "groups">>, "createGroup"),
      Route("PUT", <<"api", "groups", ":id">>, "updateGroup"),
      Route("DELETE", <<"api", "groups", ":id">>, "deleteGroup"),
      Route("GET", <<"api", "events">>, "getEvents"),
      Route("GET", <<"api", "events", ":id">>, "getEventById"),
      Route("POST", <<"api", "events">>, "createEvent"),
      Route("PUT", <<"api", "events", ":id">>, "updateEvent"),
      Route("DELETE", <<"api", "events", ":id">>, "deleteEvent"),
      Route("POST", <<"api", "events", "group">>, "addEventToGroup"),
      Route("DELETE", <<"api", "events", "group">>, "removeEventFromGroup"),
      Route("GET", <<"api", "surveys">>, "getSurveys"),
      Route("GET", <<"api", "surveys", ":id">>, "getSurveyById"),
      Route("POST", <<"api", "surveys">>, "createSurvey"),
      Route("PUT", <<"api", "surveys", ":id">>, "updateSurvey"),
      Route("DELETE", <<"api", "surveys", ":id">>, "deleteSurvey"),
      Route("POST", <<"api", "surveys", "event">>, "addSurveyToEvent"),
      Route("DELETE", <<"api", "surveys", "event">>, "removeSurveyFromEvent")>>

PathMatches(pattern, path) ==
    /\ Len(pattern) = Len(path)
    /\ \A i \in DOMAIN pattern : pattern[i] = ":id" \/ pattern[i] = path[i]

(* The handler of the first matching route; none matches: Express answers  *)
(* 404 itself.                                                             *)
Dispatch(method, path) ==
    LET hits == {i \in DOMAIN Routes :
                     /\ Routes[i].method = method
                     /\ PathMatches(Routes[i].path, path)}
    IN  IF hits = {} THEN "notFound"
        ELSE Routes[CHOOSE i \in hits : \A j \in hits : i <= j].handler

(* req.params.id as the store reads it: the uuid the text denotes, or no   *)
(* uuid at all.                                                            *)
UuidOf(segment) ==
    LET texts == <<"1", "2", "3", "4", "5", "6">>
    IN  IF \E i \in DOMAIN texts : texts[i] = segment
        THEN CHOOSE i \in DOMAIN texts : texts[i] = segment
        ELSE BadUuid

notFound(method, path) ==
    /\ resp' = Reply("notFound", [method |-> method, path |-> path], 404,
                     "", {}, 0)
    /\ UNCHANGED <<tables, uuidGen, now, schema, listPage, inflight>>

(* One POST or DELETE request: routed, then handled.                       *)
Serve(method, path, body) ==
    LET handler == Dispatch(method, path)
        id == UuidOf(path[Len(path)])
    IN  CASE handler = "createUser" -> createUser(body)
          [] handler = "createGroup" -> createGroup(body)
          [] handler = "createEvent" -> createEvent(body)
          [] handler = "createSurvey" -> createSurvey(body)
          [] handler = "deleteUser" -> \E slot \in Slots : deleteUser(id, slot)
          [] handler = "deleteGroup" ->
                 \E slot \in Slots : deleteGroup(id, slot)
          [] handler = "deleteEvent" ->
                 \E slot \in Slots : deleteEvent(id, slot)
          [] handler = "deleteSurvey" ->
                 \E slot \in Slots : deleteSurvey(id, slot)
          [] handler = "addUserToGroup" -> addUserToGroup(body)
          [] handler = "removeUserFromGroup" -> removeUserFromGroup(body)
          [] handler = "addEventToGroup" -> addEventToGroup(body)
          [] handler = "removeEventFromGroup" -> removeEventFromGroup(body)
          [] handler = "addSurveyToEvent" -> addSurveyToEvent(body)
          [] handler = "removeSurveyFromEvent" -> removeSurveyFromEvent(body)
          [] OTHER -> notFound(method, path)

RelationPaths ==
    {<<"api", "users", "group">>, <<"api", "events", "group">>,
     <<"api", "surveys", "event">>}
(* A body naming a user, a group, an event and a survey serves every       *)
(* relation route.                                                         *)
HttpBodies ==
    [userId : UserIds, groupId : GroupIds, eventId : EventIds,
     surveyId : SurveyIds]

NextHttp ==
    \E method \in {"POST", "DELETE"},
       path \in RelationPaths
                   \cup {<<"api", "users", "1">>, <<"api", "groups", "2">>,
                         <<"api", "groups", "3">>, <<"api", "events", "4">>,
                         <<"api", "surveys", "5">>},
       body \in HttpBodies :
        Serve(method, path, body)

SpecHttp == InitLinks /\ [][NextHttp]_vars

(* One request against the populated store, answered by the store or not.  *)
(* The requests are those that pass the handler's checks and reach a       *)
(* statement.                                                              *)
StoreRequests ==
    {[op |-> "createUser", req |-> [body |-> b]] :
         b \in {b \in UserBodies :
                    {"username", "email", "password"} \subseteq DOMAIN b}}
      \cup {[op |-> "createGroup", req |-> [body |-> b]] :
                b \in {b \in GroupBodies : ~FalsyText(b, "name")}}
      \cup {[op |-> "updateUser", req |-> [id |-> id, body |-> b]] :
                id \in UpdateIds, b \in {b \in UserUpdates : ~NoFields(b)}}
      \cup {[op |-> "updateGroup", req |-> [id |-> id, body |-> b]] :
                id \in UpdateIds, b \in {b \in GroupUpdates : ~NoFields(b)}}
      \cup {[op |-> o, req |-> [id |-> id]] :
                o \in {"getUserById", "deleteUser", "deleteGroup",
                       "getGroupById", "deleteEvent", "deleteSurvey"},
                id \in UpdateIds}
      \cup {[op |-> o, req |-> [body |-> b]] :
                o \in {"addUserToGroup", "removeUserFromGroup"},
                b \in [userId : {1}, groupId : {3}]}

NextOutage ==
    \/ \E rq \in StoreRequests :
           resp = NoResp /\ queryRejected(rq.op, rq.req)
    \/ \E id \in UpdateIds, body \in UserUpdates :
           resp = NoResp /\ updateUser(id, body)
    \/ \E body \in UserBodies : resp = NoResp /\ createUser(body)

SpecOutage == InitUpdate /\ [][NextOutage]_vars

(* The dashboard read between requests that change the counts: status     *)
(* updates of users, events and surveys, and creates of groups.            *)
NextStats ==
    \/ \E u \in TwoUsers, body \in [status : BOOLEAN] :
           updateUser(u.uuid, body)
    \/ \E e \in TwoEvents, body \in [status : {"active", "completed"}] :
           updateEvent(e.uuid, body)
    \/ \E v \in TwoSurveys, body \in [status : {"active", "inactive"}] :
           updateSurvey(v.uuid, body)
    \/ \E body \in [name : {<<"b">>}] :
           createGroup(body) /\ uuidGen' <= RowsStored + MaxCreated
    \/ getDashboardStats

SpecStats == InitUpdate /\ [][NextStats]_vars

(* Users and groups created at any times, and the activity read between    *)
(* them.                                                                   *)
MaxActivityRows == 3
MaxActivityLimit == 3

NextActivity ==
    \/ \E body \in [username : {<<"a">>, <<"b">>, <<"c">>},
                      password : {<<"p">>}] :
           /\ createUser(body @@ [email |-> body.username])
           /\ uuidGen' <= MaxActivityRows
    \/ \E body \in [name : {<<"a">>, <<"b">>}] :
           createGroup(body) /\ uuidGen' <= MaxActivityRows
    \/ \E q \in [limit : 0..MaxActivityLimit] : getRecentActivity(q)
    \/ Tick

SpecActivity == Init /\ [][NextActivity]_vars

(* One form opened on a stored entity and submitted with any values.       *)
FormData ==
    [group |-> [name : {<<"a">>, <<"b">>}, description : {<<>>, <<"d">>}],
     user |-> [username : {<<"a">>, <<"c">>}, email : {<<"x">>, <<"z">>},
               role : {"user", "admin"}, status : BOOLEAN,
               password : {<<>>, <<"p">>}],
     event |-> [name : {<<"a">>, <<"b">>}, description : {<<>>, <<"d">>},
                time_start : 0..1, time_end : 1..2,
                status : {"scheduled", "active"}],
     survey |-> [name : {<<"a">>, <<"b">>},
                 form_json : [kind : {"object"}, v : 1..2, order : 0..1,
                              space : {0, 2}],
                 set_point : {<<>>, <<"s">>},
                 status : {"active", "inactive"}]]

NextForms ==
    \/ \E group \in groups, data \in FormData.group :
           resp = NoResp /\ submitGroupForm(group, data)
    \/ \E user \in users, data \in FormData.user :
           resp = NoResp /\ submitUserForm(user, data)
    \/ \E event \in events, data \in FormData.event :
           resp = NoResp /\ submitEventForm(event, data)
    \/ \E survey \in surveys, data \in FormData.survey :
           resp = NoResp /\ submitSurveyForm(survey, data)

SpecForms == InitUpdate /\ [][NextForms]_vars

(* One update request whose body names any column: a declared field, the   *)
(* creation time, the password.                                            *)
NextAnyBody ==
    \/ \E id \in UpdateIds,
          body \in {r @@ c @@ w :
                       r \in {Empty} \cup [role : {"admin"}],
                       c \in {Empty} \cup [created_at : 1..MaxTime],
                       w \in {Empty} \cup [password : {<<"p">>, <<"q">>}]} :
           resp = NoResp /\ updateUser(id, body)
    \/ \E id \in UpdateIds,
          body \in {n @@ c : n \in {Empty} \cup [name : {<<"b">>}],
                             c \in {Empty} \cup [created_at : 1..MaxTime]} :
           resp = NoResp /\ updateGroup(id, body)
    \/ \E id \in UpdateIds,
          body \in {n @@ c : n \in {Empty} \cup [name : {<<"b">>}],
                             c \in {Empty} \cup [created_at : 1..MaxTime]} :
           resp = NoResp /\ updateEvent(id, body)
    \/ \E id \in UpdateIds,
          body \in {n @@ c : n \in {Empty} \cup [name : {<<"b">>}],
                             c \in {Empty} \cup [created_at : 1..MaxTime]} :
           resp = NoResp /\ updateSurvey(id, body)

SpecAnyBody == InitUpdate /\ [][NextAnyBody]_vars

(* A process start on a fresh store, the store failing where it will.      *)
(* createServer returns the app without awaiting initializeDatabase, so    *)
(* requests are served from the start: the store rejects their statements  *)
(* until the tables exist.                                                 *)
InitStartup ==
    /\ users = {}
    /\ groups = {}
    /\ events = {}
    /\ surveys = {}
    /\ relation_group_user = {}
    /\ relation_group_event = {}
    /\ relation_event_survey = {}
    /\ uuidGen = 0
    /\ now = 1
    /\ inflight = {Startup("testConnection")}
    /\ schema = {}
    /\ listPage = Mounted
    /\ resp = NoResp

MaxStartupRows == 14

NextStartup ==
    \/ \E connect \in BOOLEAN, query \in BOOLEAN :
           testConnection(connect, query)
    \/ \E accepted \in BOOLEAN : createTables(accepted)
    \/ \E accepted \in BOOLEAN : seedDatabase(accepted)
    \/ \E body \in [username : {<<"john.doe">>, <<"a">>}, email : {<<"x">>},
                      password : {<<"p">>}] :
           \/ /\ Relations \subseteq schema
              /\ createUser(body)
              /\ uuidGen' <= MaxStartupRows
           \/ /\ ~(Relations \subseteq schema)
              /\ queryRejected("createUser", [body |-> body])
    \/ Tick

SpecStartup == InitStartup /\ [][NextStartup]_vars

(* A later process start on a store an earlier start has initialized and   *)
(* from which DELETE /api/users/:id requests have since removed any of the *)
(* sample users; the store accepts every statement.                        *)
InitRestart ==
    /\ users \in SUBSET SampleUserRows(0, 1)
    /\ groups = SampleGroupRows(Len(SampleUsers), 1)
    /\ events = {}
    /\ surveys = {}
    /\ relation_group_user = {}
    /\ relation_group_event = {}
    /\ relation_event_survey = {}
    /\ uuidGen = Len(SampleUsers) + Len(SampleGroups)
    /\ now = 1
    /\ inflight = {Startup("testConnection")}
    /\ schema = Relations
    /\ listPage = Mounted
    /\ resp = NoResp

NextRestart ==
    \/ testConnection(TRUE, TRUE)
    \/ createTables(TRUE)
    \/ seedDatabase(TRUE)
    \/ Tick

SpecRestart == InitRestart /\ [][NextRestart]_vars

(* DELETE requests for stored users and events that overlap: each handler  *)
(* awaits its SELECT before it sends its DELETE, and the handlers of other *)
(* requests run in between.                                                *)
MaxRacers == 2

NextRace ==
    \/ \E u \in TwoUsers, slot \in 1..MaxRacers : deleteUser(u.uuid, slot)
    \/ \E e \in TwoEvents, slot \in 1..MaxRacers : deleteEvent(e.uuid, slot)

SpecRace == InitUpdate /\ [][NextRace]_vars

(* Lists of users and groups while creates and deletes of users and groups *)
(* are served.                                                             *)
NextOverlap ==
    \/ \E q \in [page : {0}, limit : {0, 1}, search : {<<>>}, role : {""},
                   status : {""}] :
           \/ getUsersPromiseAll(q, 1)
           \/ getGroupsPromiseAll(q, 1)
    \/ \E u \in TwoUsers : deleteUser(u.uuid, MaxRacers)
    \/ \E g \in TwoGroups : deleteGroup(g.uuid, MaxRacers)
    \/ /\ createUser([username |-> <<"c">>, email |-> <<"z">>,
                      password |-> <<"p">>])
       /\ uuidGen' <= RowsStored + MaxCreated
    \/ createGroup([name |-> <<"c">>]) /\ uuidGen' <= RowsStored + MaxCreated

SpecOverlap == InitUpdate /\ [][NextOverlap]_vars

(* The Surveys page open on a store of three surveys.  An answer to a      *)
(* DELETE reaches the page before anything else happens.                   *)
MaxFetches == 2

NextPages ==
    \/ /\ resp.op # "deleteSurvey"
       /\ clickNext
       /\ Cardinality(listPage'.fetches) <= MaxFetches
    \/ /\ resp.op # "deleteSurvey"
       /\ clickPrevious
       /\ Cardinality(listPage'.fetches) <= MaxFetches
    \/ \E status \in {"all", "active"} :
           /\ resp.op # "deleteSurvey"
           /\ setStatusFilter(status)
           /\ Cardinality(listPage'.fetches) <= MaxFetches
    \/ \E f \in listPage.fetches :
           resp.op # "deleteSurvey" /\ fetchSurveys(f)
    \/ \E sv \in ThreeSurveys :
           /\ resp.op # "deleteSurvey"
           /\ clickDelete(sv.uuid)
           /\ Cardinality(listPage'.deletes) <= MaxInflight
    \/ \E d \in listPage.deletes, slot \in Slots :
           resp.op # "deleteSurvey" /\ deleteSurvey(d.id, slot)
    \/ \E d \in listPage.deletes : deleteSurveyAnswered(d)

SpecPages == InitList /\ [][NextPages]_vars

-----------------------------------------------------------------------------
(* C1: after any sequence of createEvent and updateEvent requests every    *)
(* stored event has time_end > time_start.                                 *)
C1_EventTimesOrdered == \A e \in events : e.time_end > e.time_start

(* C10: createEvent with name, time_start and time_end present and         *)
(* time_end not after time_start is rejected with status 400 and error     *)
(* "End time must be after start time", and stores no event.               *)
EndNotAfterStart(body) ==
    /\ ~FalsyText(body, "name")
    /\ Has(body, "time_start") /\ body.time_start >= 1
    /\ Has(body, "time_end") /\ body.time_end >= 1
    /\ body.time_end <= body.time_start

C10_CreateEventRejectsEndNotAfterStart ==
    [][(resp'.op = "createEvent" /\ EndNotAfterStart(resp'.req.body))
          => /\ resp'.status = 400
             /\ resp'.error = "End time must be after start time"
             /\ events' = events]_vars

C10_Witness ==
    /\ resp.op = "createEvent"
    /\ EndNotAfterStart(resp.req.body)
    /\ resp.req.body.time_end = resp.req.body.time_start
    /\ resp.status = 400
    /\ events # {}

(* C2: a successful update with field set F leaves the targeted row with   *)
(* the supplied values for the fields in F and updated_at at the current   *)
(* time, every other column of that row as it was, and every other row of  *)
(* every table unchanged.                                                  *)
UpdateOps == {"updateUser", "updateGroup", "updateEvent", "updateSurvey"}

RowFrame(before, after, id, body) ==
    \E old \in before : \E new \in after :
        /\ old.uuid = id
        /\ new.uuid = id
        /\ \A c \in DOMAIN old \ {"uuid"} :
               new[c] = IF c = "updated_at" THEN now
                        ELSE IF c \in DOMAIN body THEN body[c]
                        ELSE old[c]
        /\ after \ {new} = before \ {old}

C2_UpdateFrame ==
    [][(resp'.op \in UpdateOps /\ resp'.status = 200) =>
          /\ resp'.op = "updateUser" =>
                 /\ RowFrame(users, users', resp'.req.id, resp'.req.body)
                 /\ UNCHANGED <<groups, events, surveys>>
          /\ resp'.op = "updateGroup" =>
                 /\ RowFrame(groups, groups', resp'.req.id, resp'.req.body)
                 /\ UNCHANGED <<users, events, surveys>>
          /\ resp'.op = "updateEvent" =>
                 /\ RowFrame(events, events', resp'.req.id, resp'.req.body)
                 /\ UNCHANGED <<users, groups, surveys>>
          /\ resp'.op = "updateSurvey" =>
                 /\ RowFrame(surveys, surveys', resp'.req.id, resp'.req.body)
                 /\ UNCHANGED <<users, groups, events>>
          /\ UNCHANGED <<relation_group_user, relation_group_event,
                         relation_event_survey>>]_vars

C2_Witness ==
    /\ resp.op = "updateEvent"
    /\ resp.status = 200
    /\ DOMAIN resp.req.body = {"description", "status"}
    /\ now > 1
    /\ \E e \in events : /\ e.uuid = resp.req.id
                         /\ e.updated_at = now
                         /\ e.created_at < now
                         /\ e.status = "completed"
                         /\ e.name = <<"a">>

(* C3: an update request whose body has no defined field is rejected with  *)
(* status 400 and error "No fields to update", issues no statement and     *)
(* leaves the store unchanged, whether or not the id exists.               *)
C3_EmptyUpdateRejected ==
    [][(resp'.op \in UpdateOps /\ DOMAIN resp'.req.body = {}) =>
          /\ resp'.status = 400
          /\ resp'.error = "No fields to update"
          /\ resp'.queries = 0
          /\ UNCHANGED tables]_vars

C3_Witness ==
    /\ resp.op = "updateSurvey"
    /\ DOMAIN resp.req.body = {}
    /\ resp.status = 400
    /\ resp.queries = 0
    /\ Exists(surveys, resp.req.id)

(* C4: a list request with page and limit at least 1 on an unchanging      *)
(* store succeeds and returns as data the rows numbered (page-1)*limit to  *)
(* page*limit-1 of the rows satisfying all supplied filters (search as a   *)
(* case-insensitive substring of one of the searched columns, role and     *)
(* status as exact matches), in the list's descending order; total is the  *)
(* number of rows satisfying the filters and totalPages is                 *)
(* ceil(total/limit).                                                      *)
ListOps == {"getUsers", "getGroups", "getEvents", "getSurveys"}

Contains(s, sub) ==
    /\ s # NULL
    /\ \E i \in 0..(Len(s) - Len(sub)) :
           SubSeq(LowerText(s), i + 1, i + Len(sub)) = LowerText(sub)

Searched(q, a, b) == q.search # <<>> => Contains(a, q.search) \/ Contains(b, q.search)

Supplied(param) == param \notin {"", "all"}

Satisfying(op, q) ==
    CASE op = "getUsers" ->
             {UserWithGroups(u) : u \in {x \in users :
                 /\ Searched(q, x.username, x.email)
                 /\ Supplied(q.role) => x.role = q.role
                 /\ Supplied(q.status) =>
                        IF x.status THEN q.status = "active"
                        ELSE q.status = "inactive"}}
      [] op = "getGroups" ->
             {GroupWithUsers(g) : g \in {x \in groups :
                 Searched(q, x.name, x.description)}}
      [] op = "getEvents" ->
             {EventWithGroups(e) : e \in {x \in events :
                 /\ Searched(q, x.name, x.description)
                 /\ Supplied(q.status) => x.status = q.status}}
      [] op = "getSurveys" ->
             {SurveyWithEvents(sv) : sv \in {x \in surveys :
                 /\ Searched(q, x.name, x.set_point)
                 /\ Supplied(q.status) => x.status = q.status}}

ListOrder(op) == IF op = "getEvents" THEN "time_start" ELSE "created_at"

PageOf(order, page, limit) ==
    LET first == (page - 1) * limit
        count == IF Len(order) - first > limit THEN limit
                 ELSE IF Len(order) > first THEN Len(order) - first
                 ELSE 0
    IN  [i \in 1..count |-> order[first + i]]

C4_ListPage ==
    [][(resp'.op \in ListOps /\ resp'.req.page >= 1 /\ resp'.req.limit >= 1)
          => LET q == resp'.req
                 rows == Satisfying(resp'.op, q)
                 total == Cardinality(rows)
             IN  /\ resp'.status = 200
                 /\ \E order \in OrderingsDesc(rows, ListOrder(resp'.op)) :
                        resp'.data = PageOf(order, q.page, q.limit)
                 /\ resp'.pagination.total = total
                 /\ resp'.pagination.totalPages * q.limit >= total
                 /\ (resp'.pagination.totalPages - 1) * q.limit < total
                 /\ resp'.pagination.totalPages >= 0]_vars

(* C5: createUser with username, email and password present and an email   *)
(* or username that a stored user already has is rejected with status 400  *)
(* and the error naming the field ("Email already exists" when only the    *)
(* email is used, "Username already exists" when only the username is,     *)
(* one of the two when both are), never "Failed to create user", and adds  *)
(* no row.                                                                 *)
Complete(body) ==
    /\ ~FalsyText(body, "username")
    /\ ~FalsyText(body, "email")
    /\ ~FalsyText(body, "password")

EmailUsed(body) == \E u \in users : u.email = body.email
UsernameUsed(body) == \E u \in users : u.username = body.username

UniqueIn(table, col) ==
    \A r1, r2 \in table : r1[col] = r2[col] => r1 = r2

AllUnique(us, gs) ==
    /\ UniqueIn(us, "username")
    /\ UniqueIn(us, "email")
    /\ UniqueIn(gs, "name")

(* The request of the step would give a row a value another row has.       *)
WouldBreak(r) ==
    LET Taken(table, col, self) ==
            /\ col \in DOMAIN r.req.body
            /\ \E o \in table : o.uuid # self /\ o[col] = r.req.body[col]
    IN  \/ /\ r.op = "createUser"
           /\ Complete(r.req.body)
           /\ Taken(users, "username", 0) \/ Taken(users, "email", 0)
        \/ /\ r.op = "updateUser"
           /\ Exists(users, r.req.id)
           /\ Taken(users, "username", r.req.id)
                  \/ Taken(users, "email", r.req.id)
        \/ /\ r.op = "createGroup"
           /\ ~FalsyText(r.req.body, "name")
           /\ Taken(groups, "name", 0)
        \/ /\ r.op = "updateGroup"
           /\ Exists(groups, r.req.id)
           /\ Taken(groups, "name", r.req.id)

C6_UniqueNames ==
    /\ AllUnique(users, groups)
    /\ [][/\ AllUnique(users', groups')
          /\ WouldBreak(resp') =>
                 /\ resp'.status = 400
                 /\ UNCHANGED tables]_vars

C6_Witness ==
    /\ resp.op = "updateUser"
    /\ resp.status = 400
    /\ resp.error = "Email already exists"
    /\ Cardinality(users) = 2
    /\ \E u \in users : u.uuid # resp.req.id /\ u.email = resp.req.body.email

(* C7: a successful deleteGroup of group g removes every user-group and    *)
(* group-event join row that references g, and changes no user row, no     *)
(* event row, no other group row and no join row that does not reference   *)
(* g.                                                                      *)
C7_DeleteGroupCascade ==
    [][(resp'.op = "deleteGroup" /\ resp'.status = 200) =>
          LET g == resp'.req.id
          IN  /\ \A l \in relation_group_user' : l.group_id # g
              /\ \A l \in relation_group_event' : l.group_id # g
              /\ \A l \in relation_group_user :
                     l.group_id # g => l \in relation_group_user'
              /\ \A l \in relation_group_event :
                     l.group_id # g => l \in relation_group_event'
              /\ relation_group_user' \subseteq relation_group_user
              /\ relation_group_event' \subseteq relation_group_event
              /\ relation_event_survey' = relation_event_survey
              /\ users' = users
              /\ events' = events
              /\ \A x \in groups : x.uuid # g => x \in groups'
              /\ groups' \subseteq groups]_vars

C7_Witness ==
    /\ resp.op = "deleteGroup"
    /\ resp.status = 200
    /\ ~Exists(groups, resp.req.id)
    /\ \E l \in relation_group_user : l.group_id # resp.req.id
    /\ \E l \in relation_group_event : l.group_id # resp.req.id
    /\ relation_event_survey # {}

(* C8: in every reachable state every row of the three join tables         *)
(* references a user, group, event or survey that exists; an add-link      *)
(* request naming an identifier of no row adds no join row.                *)
LinksReferToRows ==
    /\ \A l \in relation_group_user :
           Exists(users, l.user_id) /\ Exists(groups, l.group_id)
    /\ \A l \in relation_group_event :
           Exists(events, l.event_id) /\ Exists(groups, l.group_id)
    /\ \A l \in relation_event_survey :
           Exists(surveys, l.survey_id) /\ Exists(events, l.event_id)

NamesMissingRow(r) ==
    \/ /\ r.op = "addUserToGroup"
       /\ ~Exists(users, r.req.body.userId)
              \/ ~Exists(groups, r.req.body.groupId)
    \/ /\ r.op = "addEventToGroup"
       /\ ~Exists(events, r.req.body.eventId)
              \/ ~Exists(groups, r.req.body.groupId)
    \/ /\ r.op = "addSurveyToEvent"
       /\ ~Exists(surveys, r.req.body.surveyId)
              \/ ~Exists(events, r.req.body.eventId)

C8_ReferentialIntegrity ==
    /\ LinksReferToRows
    /\ [][/\ LinksReferToRows'
          /\ NamesMissingRow(resp') =>
                 UNCHANGED <<relation_group_user, relation_group_event,
                             relation_event_survey>>]_vars

C8_Witness ==
    /\ resp.op = "addEventToGroup"
    /\ resp.status = 500
    /\ Exists(events, resp.req.body.eventId)
    /\ ~Exists(groups, resp.req.body.groupId)
    /\ relation_group_event # {}

(* C9: createGroup with a name no stored group has answers 201 with a      *)
(* generated id; while a group of that name exists createGroup with the    *)
(* name answers 400 "Group name already exists" and a list with the name   *)
(* as search returns that group once; deleteGroup of a stored group's id   *)
(* answers 200, and from then on the id names no group, so getGroupById    *)
(* and deleteGroup of it answer 404.                                       *)
Named(n) == {g \in groups : g.name = n}

Occurrences(data, n) == Cardinality({i \in DOMAIN data : data[i].name = n})

C9_GroupLifecycle ==
    [][/\ (resp'.op = "createGroup" /\ Named(resp'.req.body.name) = {}) =>
              /\ resp'.status = 201
              /\ \E g \in resp'.data :
                     /\ ~Exists(groups, g.uuid)
                     /\ g.name = resp'.req.body.name
                     /\ groups' = groups \cup {g}
       /\ (resp'.op = "createGroup" /\ Named(resp'.req.body.name) # {}) =>
              /\ resp'.status = 400
              /\ resp'.error = "Group name already exists"
       /\ (resp'.op = "getGroups" /\ Named(resp'.req.search) # {}) =>
              /\ resp'.status = 200
              /\ Occurrences(resp'.data, resp'.req.search) = 1
       /\ (resp'.op = "deleteGroup" /\ Exists(groups, resp'.req.id)) =>
              /\ resp'.status = 200
              /\ ~Exists(groups', resp'.req.id)
       /\ (resp'.op = "deleteGroup" /\ ~Exists(groups, resp'.req.id)) =>
              resp'.status = 404
       /\ (resp'.op = "getGroupById" /\ ~Exists(groups, resp'.req.id)) =>
              resp'.status = 404
       /\ \A id \in 1..uuidGen : ~Exists(groups, id) => ~Exists(groups', id)
      ]_vars

(* C11: adding a pair that is already linked answers 200 and changes no    *)
(* row (the stored file_final of an event-survey row is kept), and every   *)
(* join table holds at most one row per pair in every reachable state.     *)
OnePerPair(rel, colA, colB) ==
    \A l1, l2 \in rel :
        (l1[colA] = l2[colA] /\ l1[colB] = l2[colB]) => l1 = l2

OneRowPerPair ==
    /\ OnePerPair(relation_group_user, "user_id", "group_id")
    /\ OnePerPair(relation_group_event, "event_id", "group_id")
    /\ OnePerPair(relation_event_survey, "survey_id", "event_id")

Linked(r) ==
    \/ /\ r.op \in {"addUserToGroup", "removeUserFromGroup"}
       /\ \E l \in relation_group_user :
              l.user_id = r.req.body.userId /\ l.group_id = r.req.body.groupId
    \/ /\ r.op \in {"addEventToGroup", "removeEventFromGroup"}
       /\ \E l \in relation_group_event :
              /\ l.event_id = r.req.body.eventId
              /\ l.group_id = r.req.body.groupId
    \/ /\ r.op \in {"addSurveyToEvent", "removeSurveyFromEvent"}
       /\ \E l \in relation_event_survey :
              /\ l.survey_id = r.req.body.surveyId
              /\ l.event_id = r.req.body.eventId

AddOps == {"addUserToGroup", "addEventToGroup", "addSurveyToEvent"}

C11_AddLinkIdempotent ==
    /\ OneRowPerPair
    /\ [][/\ OneRowPerPair'
          /\ (resp'.op \in AddOps /\ Linked(resp')) =>
                 /\ resp'.status = 200
                 /\ UNCHANGED tables]_vars

C11_Witness ==
    /\ resp.op = "addSurveyToEvent"
    /\ resp.status = 200
    /\ Has(resp.req.body, "file_final")
    /\ \E l \in relation_event_survey :
           /\ l.survey_id = resp.req.body.surveyId
           /\ l.event_id = resp.req.body.eventId
           /\ l.file_final = NULL

(* C12: a remove-link request with both identifiers present answers 200    *)
(* whether or not the pair is linked; an unlinked pair leaves the store    *)
(* unchanged, a linked pair loses exactly its join row and nothing else.   *)
RemoveOps ==
    {"removeUserFromGroup", "removeEventFromGroup", "removeSurveyFromEvent"}

BothPresent(r) ==
    \/ /\ r.op = "removeUserFromGroup"
       /\ r.req.body.userId # 0 /\ r.req.body.groupId # 0
    \/ /\ r.op = "removeEventFromGroup"
       /\ r.req.body.eventId # 0 /\ r.req.body.groupId # 0
    \/ /\ r.op = "removeSurveyFromEvent"
       /\ r.req.body.surveyId # 0 /\ r.req.body.eventId # 0

ExactlyPairRemoved(r) ==
    /\ r.op = "removeUserFromGroup" =>
           /\ relation_group_user' =
                  {l \in relation_group_user :
                       ~(/\ l.user_id = r.req.body.userId
                         /\ l.group_id = r.req.body.groupId)}
           /\ UNCHANGED <<relation_group_event, relation_event_survey>>
    /\ r.op = "removeEventFromGroup" =>
           /\ relation_group_event' =
                  {l \in relation_group_event :
                       ~(/\ l.event_id = r.req.body.eventId
                         /\ l.group_id = r.req.body.groupId)}
           /\ UNCHANGED <<relation_group_user, relation_event_survey>>
    /\ r.op = "removeSurveyFromEvent" =>
           /\ relation_event_survey' =
                  {l \in relation_event_survey :
                       ~(/\ l.survey_id = r.req.body.surveyId
                         /\ l.event_id = r.req.body.eventId)}
           /\ UNCHANGED <<relation_group_user, relation_group_event>>
    /\ UNCHANGED <<users, groups, events, surveys>>

RelationHandlers ==
    [method \in {"POST", "DELETE"}, path \in RelationPaths |->
        CASE path[2] = "users" ->
                 IF method = "POST" THEN "addUserToGroup"
                 ELSE "removeUserFromGroup"
          [] path[2] = "events" ->
                 IF method = "POST" THEN "addEventToGroup"
                 ELSE "removeEventFromGroup"
          [] path[2] = "surveys" ->
                 IF method = "POST" THEN "addSurveyToEvent"
                 ELSE "removeSurveyFromEvent"]

C13_RelationRoutes ==
    [][\A method \in {"POST", "DELETE"}, path \in RelationPaths,
          body \in HttpBodies :
           Serve(method, path, body) =>
               resp'.op = RelationHandlers[method, path]]_vars

(* C14: when initializeDatabase on a fresh store ends in a failure, no     *)
(* table, index or sample row made by that startup remains in the store.   *)
C14_StartupAllOrNothing ==
    [][(resp'.op = "initializeDatabase" /\ resp'.error # "") =>
          /\ schema' = {}
          /\ \A i \in DOMAIN SampleUsers, u \in users' :
                 u.email # SampleUsers[i].email
          /\ \A i \in DOMAIN SampleGroups, g \in groups' :
                 g.name # SampleGroups[i].name]_vars

(* C15: initializeDatabase run on a store it has already initialized, the  *)
(* store accepting every statement, ends without error, leaves every       *)
(* existing row as it was and adds no second copy of a sample row.         *)
C15_InitializationIdempotent ==
    [][resp'.op = "initializeDatabase" =>
          /\ resp'.error = ""
          /\ users \subseteq users'
          /\ groups \subseteq groups'
          /\ \A i \in DOMAIN SampleUsers :
                 Cardinality({u \in users' :
                                  u.email = SampleUsers[i].email}) <= 1
          /\ \A i \in DOMAIN SampleGroups :
                 Cardinality({g \in groups' :
                                  g.name = SampleGroups[i].name}) <= 1]_vars

(* C16: an update request that carries at least one field and names an id  *)
(* of no row of the entity's table is answered 404 with the entity's "not  *)
(* found" error and leaves the store unchanged.                            *)
TableOf(op) ==
    CASE op = "updateUser" -> users
      [] op = "updateGroup" -> groups
      [] op = "updateEvent" -> events
      [] op = "updateSurvey" -> surveys

NotFoundOf(op) ==
    CASE op = "updateUser" -> "User not found"
      [] op = "updateGroup" -> "Group not found"
      [] op = "updateEvent" -> "Event not found"
      [] op = "updateSurvey" -> "Survey not found"

UpdatesMissing(r) ==
    /\ r.op \in UpdateOps
    /\ DOMAIN r.req.body # {}
    /\ ~Exists(TableOf(r.op), r.req.id)

C16_UpdateMissingIs404 ==
    [][UpdatesMissing(resp') =>
          /\ resp'.status = 404
          /\ resp'.error = NotFoundOf(resp'.op)
          /\ UNCHANGED tables]_vars

(* C17: a request that reaches the store and gets no answer from it is     *)
(* answered with status 500, in every handler.                             *)
C17_StorageFailureIs500 ==
    [][\A rq \in StoreRequests :
           queryRejected(rq.op, rq.req) => resp'.status = 500]_vars

(* C18: in every reachable state no stored group description, event        *)
(* description or survey set_point is the empty text.                      *)
C18_NoEmptyOptionalText ==
    /\ \A g \in groups : g.description # <<>>
    /\ \A e \in events : e.description # <<>>
    /\ \A v \in surveys : v.set_point # <<>>

(* C19: in every reachable state the form of every stored survey is a JSON *)
(* object: no request stores a string, number, boolean, null or array.     *)
C19_FormsAreObjects == \A v \in surveys : v.form.kind = "object"

(* C20: every getDashboardStats answer carries, for the store state it was *)
(* read from, the row counts of the four tables as totals, the number of   *)
(* users with status true as activeUsers and the numbers of events and     *)
(* surveys with status 'active' as activeEvents and activeSurveys; each    *)
(* active count is at most its total.                                      *)
C20_DashboardCounts ==
    [][resp'.op = "getDashboardStats" =>
          \E d \in resp'.data :
              /\ resp'.data = {d}
              /\ d.totalUsers = Cardinality(users)
              /\ d.totalGroups = Cardinality(groups)
              /\ d.totalEvents = Cardinality(events)
              /\ d.totalSurveys = Cardinality(surveys)
              /\ d.activeUsers = Cardinality({u \in users : u.status})
              /\ d.activeEvents =
                     Cardinality({e \in events : e.status = "active"})
              /\ d.activeSurveys =
                     Cardinality({v \in surveys : v.status = "active"})
              /\ d.activeUsers <= d.totalUsers
              /\ d.activeEvents <= d.totalEvents
              /\ d.activeSurveys <= d.totalSurveys]_vars

C20_Witness ==
    /\ resp.op = "getDashboardStats"
    /\ \E d \in resp.data :
           /\ d.totalGroups = Cardinality(TwoGroups) + 1
           /\ d.totalUsers = Cardinality(TwoUsers)
           /\ d.activeUsers = 1
           /\ d.activeEvents = 0
           /\ d.activeSurveys = Cardinality(TwoSurveys)

(* C21: every getRecentActivity answer for a limit of at least 1 is a list *)
(* of at most limit entries of type 'user' or 'group', in non-increasing   *)
(* order of time, and has limit entries whenever users and groups together *)
(* hold at least limit rows.                                               *)
C21_RecentActivityFull ==
    [][(/\ resp'.op = "getRecentActivity"
        /\ resp'.req.limit >= 1) =>
          /\ resp'.status = 200
          /\ Len(resp'.data) <= resp'.req.limit
          /\ \A i \in DOMAIN resp'.data :
                 resp'.data[i].type \in {"user", "group"}
          /\ \A i, j \in DOMAIN resp'.data :
                 i < j => resp'.data[i].time >= resp'.data[j].time
          /\ Cardinality(users) + Cardinality(groups) >= resp'.req.limit
                 => Len(resp'.data) = resp'.req.limit]_vars

(* C25: every entry of a getRecentActivity answer is at least as recent as *)
(* every user row and every group row that the answer does not carry.      *)
Returned(data, type, details) ==
    \E i \in DOMAIN data : data[i].type = type /\ data[i].details = details

C25_RecentActivityMostRecent ==
    [][(resp'.op = "getRecentActivity" /\ resp'.status = 200) =>
          \A i \in DOMAIN resp'.data :
              /\ \A u \in users :
                     ~Returned(resp'.data, "user", u.email)
                         => resp'.data[i].time >= u.created_at
              /\ \A g \in groups :
                     ~Returned(resp'.data, "group", g.name)
                         => resp'.data[i].time >= g.created_at]_vars

(* C22: in edit mode each entity form sends exactly the fields whose       *)
(* submitted value differs from the value the form showed for the entity,  *)
(* and a form submitted unchanged sends an empty payload, which the server *)
(* answers with 400 "No fields to update".  The form shows a null          *)
(* description or set_point as the empty text, a time as its minute and    *)
(* the survey form as its JSON text; the user form shows no password and   *)
(* sends the password whenever one is typed.                               *)
TextChanged(stored, typed) ==
    IF stored = NULL THEN typed # <<>> ELSE typed # stored

MinuteChanged(stored, typed) ==
    ~(/\ typed * SecondsPerMinute <= stored
      /\ stored < (typed + 1) * SecondsPerMinute)

GroupChanges(g, d) ==
    {f \in {"name"} : d.name # g.name}
      \cup {f \in {"description"} : TextChanged(g.description, d.description)}

UserChanges(u, d) ==
    {f \in {"username", "email", "role", "status"} : d[f] # u[f]}
      \cup {f \in {"password"} : d.password # <<>>}

EventChanges(e, d) ==
    {f \in {"name", "status"} : d[f] # e[f]}
      \cup {f \in {"description"} : TextChanged(e.description, d.description)}
      \cup {f \in {"time_start", "time_end"} : MinuteChanged(e[f], d[f])}

SurveyChanges(v, d) ==
    {f \in {"name", "status"} : d[f] # v[f]}
      \cup {f \in {"set_point"} : TextChanged(v.set_point, d.set_point)}
      \cup {f \in {"form"} : \/ d.form_json.kind # v.form.kind
                            \/ d.form_json.v # v.form.v
                            \/ d.form_json.order # 0}

SendsExactly(changes) ==
    /\ DOMAIN resp'.req.body = changes
    /\ changes = {} => /\ resp'.status = 400
                       /\ resp'.error = "No fields to update"
                       /\ UNCHANGED tables

UserDiff(u, d) ==
    {f \in {"username", "email", "role", "status"} : d[f] # u[f]}
      \cup {f \in {"password"} :
                d.password # <<>> /\ d.password # u.password}

EventDiff(e, d) ==
    {f \in {"name", "status"} : d[f] # e[f]}
      \cup {f \in {"description"} : TextChanged(e.description, d.description)}
      \cup {f \in {"time_start", "time_end"} :
                d[f] * SecondsPerMinute # e[f]}

SurveyDiff(v, d) ==
    {f \in {"name", "status"} : d[f] # v[f]}
      \cup {f \in {"set_point"} : TextChanged(v.set_point, d.set_point)}
      \cup {f \in {"form"} : \/ d.form_json.kind # v.form.kind
                            \/ d.form_json.v # v.form.v}

Identity(table) ==
    {[uuid |-> r.uuid, created_at |-> r.created_at] : r \in table}

C23_UpdateWritesDeclaredFields ==
    [][resp'.op \in UpdateOps =>
          /\ Identity(users') = Identity(users)
          /\ Identity(groups') = Identity(groups)
          /\ Identity(events') = Identity(events)
          /\ Identity(surveys') = Identity(surveys)
          /\ {<<u.uuid, u.password>> : u \in users'}
                 = {<<u.uuid, u.password>> : u \in users}]_vars

(* C24: no user object of a getUsers answer carries the user's password.   *)
C24_NoPasswordInResponses ==
    resp.op = "getUsers" =>
        \A i \in DOMAIN resp.data : "password" \notin DOMAIN resp.data[i]

(* C26: outside the transaction of seedDatabase no client of the pool is   *)
(* checked out: testConnection, createTables and seedDatabase have         *)
(* released every client they connected.                                   *)
C26_ClientsReleased ==
    Startup("seedDatabase.BEGIN") \notin inflight => CheckedOut = {}

(* C27: a deleteUser or deleteEvent request that is answered with success  *)
(* has removed the row of its id, so of the delete requests for one id at  *)
(* most one is answered with success.                                      *)
C27_OneDeleteSucceeds ==
    [][/\ resp'.op = "deleteUser" /\ resp'.status = 200
           => Exists(users, resp'.req.id)
       /\ resp'.op = "deleteEvent" /\ resp'.status = 200
           => Exists(events, resp'.req.id)]_vars

(* C28: the data of a getUsers or getGroups answer are the rows of its     *)
(* page out of as many rows as its total says: with total rows matching,   *)
(* the page that starts after offset rows holds the smaller of limit and   *)
(* total - offset rows, and none when offset is not below total.           *)
PageLength(total, page, limit) ==
    LET rest == total - (page - 1) * limit
    IN  IF rest <= 0 THEN 0 ELSE IF rest < limit THEN rest ELSE limit

C28_DataMatchesTotal ==
    resp.op \in {"getUsers", "getGroups"} /\ resp.status = 200 =>
        Len(resp.data) = PageLength(resp.pagination.total,
                                    resp.pagination.page,
                                    resp.pagination.limit)

(* C29: whenever the Surveys page has no request in flight, its current   *)
(* page is at least 1 and at most the larger of 1 and its number of pages. *)
C29_CurrentPageInRange ==
    listPage.fetches = {} /\ listPage.deletes = {} =>
        /\ 1 <= listPage.currentPage
        /\ \/ listPage.currentPage <= listPage.totalPages
           \/ listPage.currentPage = 1

(* C30: seedDatabase starts only once createTables has committed, a start  *)
(* whose connection test fails creates no table and no row, and no request *)
(* sends a statement to the store while initializeDatabase is running.     *)
Initializing ==
    \E next \in {"testConnection", "createTables", "seedDatabase",
                 "seedDatabase.BEGIN"} : Startup(next) \in inflight

C30_StartupBeforeRequests ==
    /\ Startup("seedDatabase") \in inflight => Relations \subseteq schema
    /\ resp.op = "initializeDatabase"
           /\ resp.error = "Database connection failed"
           => schema = {} /\ users = {} /\ groups = {}
    /\ resp.op = "createUser" /\ resp.queries > 0 => ~Initializing

====
